---- MODULE Spec2Model ----
(***************************************************************************)
(* Streaming alert correlator: the deduplication worker                    *)
(* (src/workers/dedup.worker.ts), the episode-clustering worker            *)
(* (src/workers/cluster.worker.ts) and the in-process correlation engine   *)
(* of src/main.js, as state machines.  Times are epoch milliseconds, as in *)
(* the source.                                                             *)
(***************************************************************************)
EXTENDS Integers, Sequences, FiniteSets, TLC

(***************************************************************************)
(* Configuration (DEFAULT_CONFIG) and the constants written in the code.   *)
(***************************************************************************)
hopMs == 1000
dedupTtlMs == 120000
episodeGapMs == 120000
windowMs == 900000  \* 15 * 60_000
rateLimitWindow == 60000
maxAlertsPerMinute == 100
flapLimit == 3
gcMaxAge == 600000  \* 10 * 60_000
maxEpisodeAlerts == 50

(***************************************************************************)
(* Bounds of the exploration.                                              *)
(***************************************************************************)
MaxBatch == 2
MaxAlerts == 5
MaxTicks == 3

\* A wall-clock origin later than every window, as epoch clocks are.
T0 == 2 * windowMs

(***************************************************************************)
(* JavaScript Map: a function whose domain is the set of keys present.     *)
(***************************************************************************)
EmptyMap == << >>
Has(m, k) == k \in DOMAIN m
Put(m, k, v) == [x \in (DOMAIN m) \cup {k} |-> IF x = k THEN v ELSE m[x]]
Del(m, k) == [x \in (DOMAIN m) \ {k} |-> m[x]]
\* map.get(k) || 0
GetOr0(m, k) == IF Has(m, k) THEN m[k] ELSE 0
GetOr(m, k, d) == IF Has(m, k) THEN m[k] ELSE d

(***************************************************************************)
(* Alerts.  A field the alert does not carry is the empty string, which is *)
(* falsy in the `a || b` chains of the source.                             *)
(***************************************************************************)
MkAlert(id, ts, src, fp, title, status, sev, ent) ==
  [vendor_event_id |-> id, ts |-> ts, source |-> src, fingerprint |-> fp,
   title |-> title, kind |-> "metric", status |-> status, severity |-> sev,
   entity_key |-> ent.entity_key, service |-> ent.service,
   component |-> ent.component, resource |-> ent.resource]

\* alert.entity_key || alert.service || alert.component || alert.resource || 'na'
EntityKeyOf(a) ==
  IF a.entity_key # "" THEN a.entity_key
  ELSE IF a.service # "" THEN a.service
  ELSE IF a.component # "" THEN a.component
  ELSE IF a.resource # "" THEN a.resource
  ELSE "na"

\* key.toLowerCase().replace(/[^a-z0-9_|]/g, '_') on the names the model uses.
Sanitize(s) ==
  CASE s = "CPU-High" -> "cpu_high"
    [] s = "svc-a" -> "svc_a"
    [] s = "svc-b" -> "svc_b"
    [] OTHER -> s

\* `${alert.fingerprint || alert.title}|${alert.severity}|${entity}`, sanitized.
\* The '|'-separated parts are kept as a tuple.
generateFingerprint(a) ==
  << Sanitize(IF a.fingerprint # "" THEN a.fingerprint ELSE a.title),
     Sanitize(a.severity), Sanitize(EntityKeyOf(a)) >>

\* `${fp}|${ek}`
generateDedupKey(a) == generateFingerprint(a) \o << EntityKeyOf(a) >>

(***************************************************************************)
(* Deduplication worker.                                                   *)
(***************************************************************************)
\* A boundary slip of the comparison below.
isDuplicateAtInclusive(ts, last, ttlMs) == (ts - last) <= ttlMs

\* The comparison of updateDedupState: (now - last) < ttlMs.
isDuplicateAt(ts, last, ttlMs) == (ts - last) < ttlMs

\* updateDedupState: the new state and the returned {isDuplicate, count}.
updateDedupState(st, a, ttlMs) ==
  LET key == generateDedupKey(a)
      last == GetOr0(st.lastSeen, key)
      dup == isDuplicateAt(a.ts, last, ttlMs)
      count == GetOr0(st.counts, key) + 1
      toggled == Has(st.lastToggle, key) /\ st.lastToggle[key] # a.status
  IN IF dup
     THEN [st |-> [lastSeen |-> st.lastSeen,
                   counts |-> Put(st.counts, key, count),
                   flapCounts |-> IF toggled
                                  THEN Put(st.flapCounts, key,
                                           GetOr0(st.flapCounts, key) + 1)
                                  ELSE st.flapCounts,
                   lastToggle |-> Put(st.lastToggle, key, a.status)],
           isDuplicate |-> TRUE, count |-> count]
     ELSE [st |-> [lastSeen |-> Put(st.lastSeen, key, a.ts),
                   counts |-> Put(st.counts, key, 1),
                   flapCounts |-> st.flapCounts,
                   lastToggle |-> Put(st.lastToggle, key, a.status)],
           isDuplicate |-> FALSE, count |-> 1]

\* A boundary slip of the flap test below.
isFlapAtLimit(flapCount) == flapCount >= flapLimit

\* The flap test of the message handler: flapCount > 3.
isFlap(flapCount) == flapCount > flapLimit

\* What the worker holds for one key (-1 and "" for an absent entry).
KeyView(st, key) ==
  [lastSeen |-> IF Has(st.lastSeen, key) THEN st.lastSeen[key] ELSE -1,
   count |-> IF Has(st.counts, key) THEN st.counts[key] ELSE -1,
   flapCount |-> IF Has(st.flapCounts, key) THEN st.flapCounts[key] ELSE -1,
   lastStatus |-> IF Has(st.lastToggle, key) THEN st.lastToggle[key] ELSE ""]

\* One iteration of the handler's for-loop: acc holds the worker state, the
\* alerts kept so far (processedAlerts) and one log entry per alert handled
\* (what updateDedupState saw and left for the alert's key).
DedupStep(acc, a, ttlMs) ==
  LET key == generateDedupKey(a)
      r == updateDedupState(acc.st, a, ttlMs)
      drop == r.isDuplicate /\ isFlap(GetOr0(r.st.flapCounts, key))
      entry == [alert |-> a, key |-> key, isDuplicate |-> r.isDuplicate,
                count |-> r.count, dropped |-> drop,
                pre |-> KeyView(acc.st, key), post |-> KeyView(r.st, key)]
  IN [st |-> r.st,
      kept |-> IF drop THEN acc.kept ELSE Append(acc.kept, a),
      log |-> Append(acc.log, entry)]

\* The for-loop over batch[lo..hi], in order (first half, then second half).
RECURSIVE DedupLoop(_, _, _, _, _)
DedupLoop(acc, batch, lo, hi, ttlMs) ==
  IF lo > hi THEN acc
  ELSE IF lo = hi THEN DedupStep(acc, batch[lo], ttlMs)
  ELSE LET mid == (lo + hi) \div 2
           left == DedupLoop(acc, batch, lo, mid, ttlMs)
       IN IF left = left  \* the first half is evaluated first
          THEN DedupLoop(left, batch, mid + 1, hi, ttlMs) ELSE left

(***************************************************************************)
(* Sequence helpers.                                                       *)
(***************************************************************************)
Range(s) == {s[i] : i \in DOMAIN s}

\* The elements of s at the indices idx, in the order of idx.
Pick(s, idx) == [j \in 1..Len(idx) |-> s[idx[j]]]

\* Array.prototype.sort with the comparator (a, b) => key(a) - key(b), which is
\* stable: keys[i] is the key of element i, the result the sorted indices.
\* Element i comes after the elements with a smaller key and the earlier
\* elements with an equal key.
SortedIdx(keys) ==
  LET n == Len(keys)
      Rank(i) == Cardinality({j \in 1..n : \/ keys[j] < keys[i]
                                           \/ keys[j] = keys[i] /\ j < i}) + 1
      place == {<< Rank(i), i >> : i \in 1..n}
  IN [p \in 1..n |-> CHOOSE i \in 1..n : << p, i >> \in place]

\* alerts.sort((a, b) => a.ts - b.ts)
SortByTs(alerts) == Pick(alerts, SortedIdx([i \in DOMAIN alerts |-> alerts[i].ts]))

RECURSIVE Concat(_)
Concat(ss) == IF ss = << >> THEN << >> ELSE Head(ss) \o Concat(Tail(ss))

\* The entity keys of the alerts in order of first appearance (the insertion
\* order of the Map entityAlerts).
EntityOrder(alerts) ==
  LET First(i) == \A j \in 1..(i - 1) : EntityKeyOf(alerts[j]) # EntityKeyOf(alerts[i])
      firsts == SelectSeq([i \in 1..Len(alerts) |-> i], First)
  IN [p \in 1..Len(firsts) |-> EntityKeyOf(alerts[firsts[p]])]

\* entityAlerts.get(e): the alerts of entity e, in batch order.
AlertsOfEntity(alerts, e) ==
  LET Mine(a) == EntityKeyOf(a) = e IN SelectSeq(alerts, Mine)

\* One iteration of the inner loop of applyRateLimiting.
RateStep(acc, a, clock) ==
  IF clock - a.ts <= rateLimitWindow
  THEN IF acc.alertsInWindow < maxAlertsPerMinute
       THEN [alertsInWindow |-> acc.alertsInWindow + 1, out |-> Append(acc.out, a)]
       ELSE acc
  ELSE [alertsInWindow |-> acc.alertsInWindow, out |-> Append(acc.out, a)]

\* The inner loop over list[lo..hi], in order.
RECURSIVE RateLoop(_, _, _, _, _)
RateLoop(acc, list, lo, hi, clock) ==
  IF lo > hi THEN acc
  ELSE IF lo = hi THEN RateStep(acc, list[lo], clock)
  ELSE LET mid == (lo + hi) \div 2
           left == RateLoop(acc, list, lo, mid, clock)
       IN IF left = left  \* the first half is evaluated first
          THEN RateLoop(left, list, mid + 1, hi, clock) ELSE left

\* What applyRateLimiting keeps of one entity's alerts.
RateLimitEntity(entityAlertList, clock) ==
  LET sorted == SortByTs(entityAlertList)
  IN RateLoop([alertsInWindow |-> 0, out |-> << >>], sorted, 1, Len(sorted), clock).out

\* applyRateLimiting at wall-clock time `clock` (Date.now()).
applyRateLimiting(alerts, clock) ==
  LET ents == EntityOrder(alerts)
  IN Concat([j \in 1..Len(ents) |->
               RateLimitEntity(AlertsOfEntity(alerts, ents[j]), clock)])

\* garbageCollect at wall-clock time `clock`.
garbageCollect(st, clock) ==
  LET old == {k \in DOMAIN st.lastSeen : clock - st.lastSeen[k] > gcMaxAge}
      Keep(m) == [k \in (DOMAIN m) \ old |-> m[k]]
  IN [lastSeen |-> Keep(st.lastSeen), counts |-> Keep(st.counts),
      flapCounts |-> Keep(st.flapCounts), lastToggle |-> Keep(st.lastToggle)]

\* self.onmessage of the dedup worker for a 'dedup' message, up to the reply.
DedupHandler(st, batch, ttlMs, clock) ==
  LET loop == DedupLoop([st |-> st, kept |-> << >>, log |-> << >>],
                        batch, 1, Len(batch), ttlMs)
  IN [st |-> garbageCollect(loop.st, clock),
      data |-> applyRateLimiting(loop.kept, clock),
      log |-> loop.log]

(***************************************************************************)
(* JavaScript Map iterated in insertion order: a sequence of entries       *)
(* [key, value] with distinct keys.  JavaScript Set likewise: a sequence   *)
(* without repetition.                                                     *)
(***************************************************************************)
OKeys(m) == {m[i].key : i \in DOMAIN m}
OHas(m, k) == k \in OKeys(m)
OGet(m, k) == (CHOOSE i \in DOMAIN m : m[i].key = k)
OVal(m, k) == m[OGet(m, k)].value
OSet(m, k, v) ==
  IF OHas(m, k) THEN [m EXCEPT ![OGet(m, k)] = [key |-> k, value |-> v]]
  ELSE Append(m, [key |-> k, value |-> v])
RECURSIVE ODelete(_, _)
ODelete(m, k) ==
  IF m = << >> THEN << >>
  ELSE IF Head(m).key = k THEN Tail(m) ELSE << Head(m) >> \o ODelete(Tail(m), k)
OValues(m) == [i \in DOMAIN m |-> m[i].value]

SetAdd(s, x) == IF x \in Range(s) THEN s ELSE Append(s, x)

\* A splice that removes nothing.
RemoveNone(s, x) == s

\* array.splice(array.indexOf(x), 1) when x is in the array
RECURSIVE RemoveFirst(_, _)
RemoveFirst(s, x) ==
  IF s = << >> THEN << >>
  ELSE IF Head(s) = x THEN Tail(s) ELSE << Head(s) >> \o RemoveFirst(Tail(s), x)

(***************************************************************************)
(* Episode-clustering worker.                                              *)
(***************************************************************************)
\* alert.fingerprint || `${alert.title}|${alert.severity}`, '|'-parts as a tuple
EpisodeFingerprint(a) ==
  IF a.fingerprint # "" THEN << a.fingerprint >> ELSE << a.title, a.severity >>

\* `${entityKey}|${fingerprint}`
generateEpisodeKey(a) == << EntityKeyOf(a) >> \o EpisodeFingerprint(a)

getSeverityWeight(severity) ==
  CASE severity = "critical" -> 4
    [] severity = "high" -> 3
    [] severity = "medium" -> 2
    [] severity = "low" -> 1
    [] OTHER -> 1

\* The episode object getOrCreateEpisode builds for a key with no episode.
NewEpisode(a) ==
  [entity_key |-> EntityKeyOf(a), fingerprint |-> EpisodeFingerprint(a),
   vendorMix |-> << a.source >>, start |-> a.ts, end |-> a.ts, count |-> 1,
   ids |-> << a.vendor_event_id >>, alerts |-> << a >>, severity |-> a.severity]

\* getOrCreateEpisode: the store and the index after the call.
getOrCreateEpisode(eps, idx, a) ==
  LET key == generateEpisodeKey(a)
      ep == NewEpisode(a)
  IN IF OHas(eps, key) THEN [episodes |-> eps, entityEpisodes |-> idx]
     ELSE [episodes |-> OSet(eps, key, ep),
           entityEpisodes |->
             Put(idx, ep.entity_key,
                 Append(IF Has(idx, ep.entity_key) THEN idx[ep.entity_key]
                        ELSE << >>, key))]

\* The gap test of updateEpisode.
gapExceeded(timeDiff, gapMs) == timeDiff > gapMs

\* updateEpisode: the episode object after the call and the returned flag.
updateEpisode(ep, a, gapMs) ==
  IF gapExceeded(a.ts - ep.end, gapMs) THEN [episode |-> ep, updated |-> FALSE]
  ELSE [episode |->
          [ep EXCEPT !.end = a.ts,
                     !.count = @ + 1,
                     !.vendorMix = SetAdd(@, a.source),
                     !.severity = IF getSeverityWeight(a.severity)
                                       > getSeverityWeight(@)
                                  THEN a.severity ELSE @,
                     !.ids = SetAdd(@, a.vendor_event_id),
                     !.alerts = IF Len(@) < maxEpisodeAlerts
                                THEN Append(@, a) ELSE @],
        updated |-> TRUE]

\* cleanupOldEpisodes over the entries from position i on, at cutoff.
RECURSIVE CleanupLoop(_, _, _, _)
CleanupLoop(entries, i, acc, cutoff) ==
  IF i > Len(entries) THEN acc
  ELSE LET key == entries[i].key
           ep == entries[i].value
           ent == ep.entity_key
           keys == IF Has(acc.entityEpisodes, ent)
                   THEN RemoveFirst(acc.entityEpisodes[ent], key) ELSE << >>
       IN IF ep.end < cutoff
          THEN CleanupLoop(entries, i + 1,
                 [episodes |-> ODelete(acc.episodes, key),
                  entityEpisodes |->
                    IF ~Has(acc.entityEpisodes, ent) THEN acc.entityEpisodes
                    ELSE IF keys = << >> THEN Del(acc.entityEpisodes, ent)
                    ELSE Put(acc.entityEpisodes, ent, keys)],
                 cutoff)
          ELSE CleanupLoop(entries, i + 1, acc, cutoff)

\* cleanupOldEpisodes at wall-clock time `clock`.
cleanupOldEpisodes(eps, idx, winMs, clock) ==
  CleanupLoop(eps, 1, [episodes |-> eps, entityEpisodes |-> idx], clock - winMs)

\* A boundary slip of the filter below.
inWindowStrict(ep, cutoff) == ep.end > cutoff

\* The filter of getEpisodesInWindow.
inWindow(ep, cutoff) == ep.end >= cutoff

FilterInWindow(list, cutoff) ==
  LET Live(ep) == inWindow(ep, cutoff) IN SelectSeq(list, Live)

\* .sort((a, b) => a.start - b.start)
SortByStart(list) == Pick(list, SortedIdx([i \in DOMAIN list |-> list[i].start]))

\* getEpisodesInWindow at wall-clock time `clock`.
getEpisodesInWindow(eps, winMs, clock) ==
  SortByStart(FilterInWindow(OValues(eps), clock - winMs))

\* applyBurstClustering: the loop over the sorted alerts.
BurstStep(acc, current, gapMs) ==
  LET cc == acc.currentCluster
  IN IF cc = << >> THEN [acc EXCEPT !.currentCluster = << current >>]
     ELSE IF current.ts - cc[Len(cc)].ts <= gapMs
          THEN [acc EXCEPT !.currentCluster = Append(cc, current)]
          ELSE [currentCluster |-> << current >>,
                clusteredAlerts |-> acc.clusteredAlerts \o cc]

RECURSIVE BurstLoop(_, _, _, _, _)
BurstLoop(acc, sorted, lo, hi, gapMs) ==
  IF lo > hi THEN acc
  ELSE IF lo = hi THEN BurstStep(acc, sorted[lo], gapMs)
  ELSE LET mid == (lo + hi) \div 2
           left == BurstLoop(acc, sorted, lo, mid, gapMs)
       IN IF left = left  \* the first half is evaluated first
          THEN BurstLoop(left, sorted, mid + 1, hi, gapMs) ELSE left

applyBurstClustering(alerts, gapMs) ==
  IF alerts = << >> THEN alerts
  ELSE LET sortedAlerts == SortByTs(alerts)
           r == BurstLoop([currentCluster |-> << >>, clusteredAlerts |-> << >>],
                          sortedAlerts, 1, Len(sortedAlerts), gapMs)
       IN r.clusteredAlerts \o r.currentCluster

NoEpisode ==
  [entity_key |-> "", fingerprint |-> << >>, vendorMix |-> << >>, start |-> -1,
   end |-> -1, count |-> 0, ids |-> << >>, alerts |-> << >>, severity |-> ""]

\* One iteration of the handler's loop assigning an alert to an episode: acc
\* holds the store, the index and one log entry per alert handled (the episode
\* at the alert's key before and after the alert).
ClusterStep(acc, a, gapMs) ==
  LET key == generateEpisodeKey(a)
      got == getOrCreateEpisode(acc.episodes, acc.entityEpisodes, a)
      upd == updateEpisode(OVal(got.episodes, key), a, gapMs)
      entry == [alert |-> a, key |-> key, existed |-> OHas(acc.episodes, key),
                pre |-> IF OHas(acc.episodes, key) THEN OVal(acc.episodes, key)
                        ELSE NoEpisode,
                post |-> upd.episode, wasUpdated |-> upd.updated]
  IN [episodes |-> OSet(got.episodes, key, upd.episode),
      entityEpisodes |-> got.entityEpisodes,
      log |-> Append(acc.log, entry)]

\* The loop over list[lo..hi], in order.
RECURSIVE ClusterLoop(_, _, _, _, _)
ClusterLoop(acc, list, lo, hi, gapMs) ==
  IF lo > hi THEN acc
  ELSE IF lo = hi THEN ClusterStep(acc, list[lo], gapMs)
  ELSE LET mid == (lo + hi) \div 2
           left == ClusterLoop(acc, list, lo, mid, gapMs)
       IN IF left = left  \* the first half is evaluated first
          THEN ClusterLoop(left, list, mid + 1, hi, gapMs) ELSE left

AssignEpisodes(eps, idx, list, gapMs) ==
  ClusterLoop([episodes |-> eps, entityEpisodes |-> idx, log |-> << >>],
              list, 1, Len(list), gapMs)

\* self.onmessage of the cluster worker for a 'cluster' message, up to the
\* reply.  cleanupOldEpisodes and getEpisodesInWindow each read Date.now():
\* clock and clock2 >= clock.
ClusterHandler(eps, idx, batch, gapMs, winMs, clock, clock2) ==
  LET list == applyBurstClustering(batch, gapMs)
      loop == AssignEpisodes(eps, idx, list, gapMs)
      kept == cleanupOldEpisodes(loop.episodes, loop.entityEpisodes, winMs, clock)
  IN [episodes |-> kept.episodes, entityEpisodes |-> kept.entityEpisodes,
      data |-> [episodes |-> getEpisodesInWindow(kept.episodes, winMs, clock2),
                alertsKept |-> list],
      log |-> loop.log]

(***************************************************************************)
(* Situation building and scoring worker.  A score is a floating-point     *)
(* number in the source; the model keeps it in millionths, rounded down.   *)
(***************************************************************************)
ScoreUnit == 1000 * 1000
maxRelatedAlerts == 200
maxNextActions == 5
changeHorizonMs == 600000  \* 10 * 60_000
maxLeadMs == 90000
maxSituationLifetime == 5400000  \* 90 * 60_000
quietThreshold == 900000  \* 15 * 60_000
pathLimit == 4
\* The weights w1..w7 of the composite score, in hundredths.
w1 == 35
w2 == 20
w3 == 20
w4 == 15
w5 == 15
w6 == 10
w7 == 5
\* The echo penalty of one surplus source, in hundredths.
echoStep == 5

Min2(x, y) == IF x <= y THEN x ELSE y
Max2(x, y) == IF x >= y THEN x ELSE y

RECURSIVE SumSeq(_)
SumSeq(s) == IF s = << >> THEN 0 ELSE Head(s) + SumSeq(Tail(s))

RECURSIVE MaxSeq(_)
MaxSeq(s) == IF Len(s) = 1 THEN s[1] ELSE Max2(Head(s), MaxSeq(Tail(s)))

RECURSIVE MinSeq(_)
MinSeq(s) == IF Len(s) = 1 THEN s[1] ELSE Min2(Head(s), MinSeq(Tail(s)))

\* Math.sqrt, rounded down: the largest r in lo..hi with r * r <= n.  Here
\* and below a value a loop carries on is bound by \in, which has it computed
\* once, before the next turn of the loop.
RECURSIVE SqrtBetween(_, _, _)
SqrtBetween(n, lo, hi) ==
  IF lo >= hi THEN lo
  ELSE CHOOSE r \in {IF mid * mid <= n THEN SqrtBetween(n, mid, hi)
                     ELSE SqrtBetween(n, lo, mid - 1) :
                     mid \in {(lo + hi + 1) \div 2}} : TRUE

Sqrt(n) == SqrtBetween(n, 0, Min2(n, 46340))

\* Math.log(n) in millionths.
RECURSIVE Log(_)
Log(n) ==
  CASE n <= 1 -> 0
    [] n = 2 -> 693147
    [] n = 3 -> 1098612
    [] n = 4 -> 1386294
    [] n = 5 -> 1609437
    [] n = 6 -> 1791759
    [] n = 7 -> 1945910
    [] OTHER -> 693147 + Log(n \div 2)

\* jaccard as the fraction << intersection, union >>; 1 for two empty sets.
jaccard(a, b) ==
  IF a = {} /\ b = {} THEN << 1, 1 >>
  ELSE IF a = {} \/ b = {} THEN << 0, 1 >>
  ELSE LET inter == Cardinality(a \cap b)
       IN << inter, Cardinality(a) + Cardinality(b) - inter >>

\* A join that asks for more than half of the sources to be shared.
joinableHalf(e1, e2) ==
  LET timeOverlap == ~(e1.end < e2.start \/ e2.end < e1.start)
      vendorOverlap == jaccard(Range(e1.vendorMix), Range(e2.vendorMix))
  IN /\ timeOverlap
     /\ \/ e1.entity_key = e2.entity_key
        \/ e1.fingerprint = e2.fingerprint
        \/ 10 * vendorOverlap[1] > 5 * vendorOverlap[2]

\* joinable(e1, e2) for two distinct episode objects.
joinable(e1, e2) ==
  LET timeOverlap == ~(e1.end < e2.start \/ e2.end < e1.start)
      vendorOverlap == jaccard(Range(e1.vendorMix), Range(e2.vendorMix))
  IN /\ timeOverlap
     /\ \/ e1.entity_key = e2.entity_key
        \/ e1.fingerprint = e2.fingerprint
        \/ 10 * vendorOverlap[1] > 3 * vendorOverlap[2]  \* vendorOverlap > 0.3

\* find of buildSituations, with its path compression: the parent map after
\* the call and the root.  Episode objects are named by their position.
RECURSIVE find(_, _)
find(parent, x) ==
  IF parent[x] = x THEN [parent |-> parent, root |-> x]
  ELSE CHOOSE res \in
         {[parent |-> [r.parent EXCEPT ![x] = r.root], root |-> r.root] :
            r \in {find(parent, parent[x])}} : TRUE

unite(parent, a, b) ==
  CHOOSE res \in
    {IF ra.root # rb.root THEN [rb.parent EXCEPT ![ra.root] = rb.root]
     ELSE rb.parent :
       ra \in {find(parent, a)}, rb \in {find(find(parent, a).parent, b)}} : TRUE

\* The double loop over i < j, as the pairs in the order the loops visit them.
RECURSIVE JoinLoop(_, _, _, _)
JoinLoop(parent, eps, i, j) ==
  IF i > Len(eps) THEN parent
  ELSE IF j > Len(eps) THEN JoinLoop(parent, eps, i + 1, i + 2)
  ELSE CHOOSE res \in
         {JoinLoop(next, eps, i, j + 1) :
            next \in {IF joinable(eps[i], eps[j]) THEN unite(parent, i, j)
                      ELSE parent}} : TRUE

\* Buckets that are set to the episode at hand instead of being pushed to.
RECURSIVE BucketLoopOverwrite(_, _, _, _)
BucketLoopOverwrite(parent, buckets, i, n) ==
  IF i > n THEN buckets
  ELSE CHOOSE res \in
         {BucketLoopOverwrite(r.parent, next, i + 1, n) :
            r \in {find(parent, i)},
            next \in {OSet(buckets, find(parent, i).root, << i >>)}} : TRUE

\* The buckets Map: root -> positions of its episodes, in insertion order.
RECURSIVE BucketLoop(_, _, _, _)
BucketLoop(parent, buckets, i, n) ==
  IF i > n THEN buckets
  ELSE CHOOSE res \in
         {BucketLoop(r.parent, next, i + 1, n) :
            r \in {find(parent, i)},
            next \in {LET root == find(parent, i).root
                          old == IF OHas(buckets, root) THEN OVal(buckets, root)
                                 ELSE << >>
                      IN OSet(buckets, root, Append(old, i))}} : TRUE

\* a.deploy_key, a field most alerts do not carry.
DeployKeyOf(a) == IF "deploy_key" \in DOMAIN a THEN a.deploy_key ELSE ""

\* A slice that keeps one entry too many.
TakeOneMore(s, n) == SubSeq(s, 1, Min2(Len(s), n + 1))

\* Array.prototype.slice(0, n)
Take(s, n) == SubSeq(s, 1, Min2(Len(s), n))

\* The services named by the alerts the episodes of a group retain.
GroupServices(group) ==
  UNION {{a.service : a \in {x \in Range(g.alerts) : x.service # ""}} :
         g \in Range(group)}

\* The situation object built for one bucket.
NewSituation(group, alerts) ==
  CHOOSE situation \in
  {LET Related(a) == a.ts >= start /\ a.ts <= end
   IN [situation_id |-> "S-" \o ToString(start) \o "-" \o ToString(end)
                          \o "-" \o ToString(Len(group)),
      window |-> [start |-> start, end |-> end],
      episodes |-> group,
      related_alerts |-> Take(SelectSeq(alerts, Related), maxRelatedAlerts),
      blast_radius |->
        [entities |-> Cardinality({g.entity_key : g \in Range(group)}),
         services |-> Cardinality(GroupServices(group))],
      score |-> 0, scoreNaN |-> FALSE] :
     start \in {MinSeq([i \in DOMAIN group |-> group[i].start])},
     end \in {MaxSeq([i \in DOMAIN group |-> group[i].end])}} : TRUE

\* buildSituations: the episodes sorted by start, then one situation a bucket.
buildSituations(episodes, alerts) ==
  IF episodes = << >> THEN << >>
  ELSE CHOOSE list \in
         {LET n == Len(eps)
              parent == JoinLoop([i \in 1..n |-> i], eps, 1, 2)
              buckets == OValues(BucketLoop(parent, << >>, 1, n))
          IN [b \in DOMAIN buckets |->
                NewSituation(Pick(eps, buckets[b]), alerts)] :
            eps \in {SortByStart(episodes)}} : TRUE

\* toBins of corrLeadLag: 1-second bin -> number of timestamps in it.
toBins(ts) ==
  LET bins == {t \div 1000 : t \in Range(ts)}
  IN [b \in bins |-> Cardinality({i \in DOMAIN ts : ts[i] \div 1000 = b})]

\* The sums of one lag: numerator, denomA * denomB.
LagSums(A, B, lag) ==
  LET S == DOMAIN A
      bCount(bin) == GetOr0(B, bin + lag)
      RECURSIVE Sum(_, _)
      Sum(rest, kind) ==
        IF rest = {} THEN 0
        ELSE CHOOSE sum \in
               {(CASE kind = "n" -> A[bin] * bCount(bin)
                   [] kind = "a" -> A[bin] * A[bin]
                   [] OTHER -> bCount(bin) * bCount(bin))
                + Sum(rest \ {bin}, kind) :
                  bin \in {CHOOSE x \in rest : TRUE}} : TRUE
  IN [num |-> Sum(S, "n"), denomA |-> Sum(S, "a"), denomB |-> Sum(S, "b")]

\* score > best.score for two scores num / sqrt(den), compared exactly.
ScoreAbove(num1, den1, num2, den2) == num1 * num1 * den2 > num2 * num2 * den1

\* The lags 0 .. maxLagS at which some bin of B meets a bin of A, ascending;
\* at any other lag denomB is 0 and the loop body does nothing.
RECURSIVE Ascending(_)
Ascending(S) ==
  IF S = {} THEN << >>
  ELSE CHOOSE list \in
         {<< m >> \o Ascending(S \ {m}) :
            m \in {CHOOSE x \in S : \A y \in S : x <= y}} : TRUE

MeetingLags(A, B, maxLagS) ==
  Ascending({l \in {b - a : a \in DOMAIN A, b \in DOMAIN B} :
               l >= 0 /\ l <= maxLagS})

\* The body of the loop over the lags: best after the turn of one lag.
LagStep(A, B, lag, best) ==
  CHOOSE next \in
    {IF s.denomA > 0 /\ s.denomB > 0
          /\ ScoreAbove(s.num, s.denomA * s.denomB, best.num, best.den)
     THEN [lagMs |-> lag * 1000, num |-> s.num, den |-> s.denomA * s.denomB]
     ELSE best :
       s \in {LagSums(A, B, lag)}} : TRUE

\* The loop over lag = 0 .. maxLagS, keeping the first best score.
RECURSIVE LagLoop(_, _, _, _, _)
LagLoop(A, B, lags, i, best) ==
  IF i > Len(lags) THEN best
  ELSE CHOOSE res \in
         {LagLoop(A, B, lags, i + 1, next) :
            next \in {LagStep(A, B, lags[i], best)}} : TRUE

\* 10000 * Math.sqrt(den), rounded down as far as 32-bit integers allow.
RootScaled(den) ==
  IF den <= 20 THEN Sqrt(den * 100000000)
  ELSE IF den <= 2000 THEN Sqrt(den * 1000000) * 10
  ELSE IF den <= 200000 THEN Sqrt(den * 10000) * 100
  ELSE Sqrt(den) * 10000

\* num / Math.sqrt(den) in millionths.
RatioToRoot(num, den) ==
  IF num = 0 THEN 0
  ELSE CHOOSE ratio \in
         {LET q == num * ScoreUnit
          IN (q \div r) * 10000 + ((q % r) * 10000) \div r :
            r \in {RootScaled(den)}} : TRUE

\* corrLeadLag: {lagMs, score}; num and den keep the score exactly.
corrLeadLag(aTs, bTs, leadMs) ==
  LET zero == [lagMs |-> 0, num |-> 0, den |-> 1]
      Best(A, B) ==
        CHOOSE b \in {LagLoop(A, B, lags, 1, zero) :
                        lags \in {MeetingLags(A, B, leadMs \div 1000)}} : TRUE
  IN CHOOSE res \in
       {[lagMs |-> best.lagMs, num |-> best.num, den |-> best.den,
         score |-> RatioToRoot(best.num, best.den)] :
          best \in {IF aTs = << >> \/ bTs = << >> THEN zero
                    ELSE CHOOSE b \in {Best(A, B) : A \in {toBins(aTs)},
                                                   B \in {toBins(bTs)}} : TRUE}}
       : TRUE

\* The Infinity that shortestPathLen returns when it finds no path.
Infinity == 1000000000

\* The for loop over the neighbours of the dequeued node.
RECURSIVE NeighbourLoop(_, _, _, _, _)
NeighbourLoop(st, nbrs, i, dst, distance) ==
  IF i > Len(nbrs) \/ st.found # Infinity THEN st
  ELSE IF nbrs[i] \in st.seen THEN NeighbourLoop(st, nbrs, i + 1, dst, distance)
  ELSE IF nbrs[i] = dst THEN [st EXCEPT !.found = distance + 1]
  ELSE CHOOSE res \in
         {NeighbourLoop(next, nbrs, i + 1, dst, distance) :
            next \in {[st EXCEPT !.seen = @ \cup {nbrs[i]},
                                 !.queue = Append(@, << nbrs[i],
                                                     distance + 1 >>)]}} : TRUE

\* The while loop over the queue.
RECURSIVE QueueLoop(_, _, _, _)
QueueLoop(st, adj, dst, limit) ==
  IF st.queue = << >> \/ st.found # Infinity THEN st.found
  ELSE CHOOSE res \in
         {QueueLoop(next, adj, dst, limit) :
            next \in
              {LET current == Head(st.queue)[1]
                   distance == Head(st.queue)[2]
                   rest == [st EXCEPT !.queue = Tail(@)]
               IN IF distance >= limit THEN rest
                  ELSE NeighbourLoop(rest,
                                     IF current \in DOMAIN adj
                                     THEN adj[current] ELSE << >>,
                                     1, dst, distance)}} : TRUE

shortestPathLen(adj, src, dst, limit) ==
  IF src = dst THEN 0
  ELSE IF src \notin DOMAIN adj \/ dst \notin DOMAIN adj THEN Infinity
  ELSE QueueLoop([queue |-> << << src, 0 >> >>, seen |-> {src},
                  found |-> Infinity], adj, dst, limit)

\* pathScore, in millionths: bestPath === Infinity ? 0 : 1 / (1 + bestPath).
pathScoreOf(bestPath) ==
  IF bestPath = Infinity THEN 0 ELSE ScoreUnit \div (1 + bestPath)

\* severityWeight, in millionths.
severityWeight(severity) ==
  CASE severity = "critical" -> 1000000
    [] severity = "high" -> 750000
    [] severity = "medium" -> 500000
    [] severity = "low" -> 250000
    [] OTHER -> 250000

\* String.prototype.includes on the entity names the model uses.
Includes(s, part) ==
  CASE part = "database" -> s \in {"database", "database-api-cache"}
    [] part = "api" -> s \in {"api", "api-gw", "database-api-cache"}
    [] part = "cache" -> s \in {"cache", "database-api-cache"}
    [] OTHER -> FALSE

generateNextActions(cause, situation) ==
  LET maxSeverity ==
        MaxSeq([i \in DOMAIN situation.episodes |->
                  severityWeight(situation.episodes[i].severity)])
      actions ==
        (IF situation.blast_radius.entities > 5
         THEN << "Page oncall team - multiple services affected" >> ELSE << >>)
        \o (IF situation.blast_radius.services > 3
            THEN << "Check shared infrastructure components" >> ELSE << >>)
        \o (IF Includes(cause.entity_key, "database")
            THEN << "Check database connection pool and performance",
                    "Verify database resource limits" >> ELSE << >>)
        \o (IF Includes(cause.entity_key, "api")
            THEN << "Check API rate limiting and quotas",
                    "Verify upstream service health" >> ELSE << >>)
        \o (IF Includes(cause.entity_key, "cache")
            THEN << "Check cache hit rates and memory usage",
                    "Verify cache cluster health" >> ELSE << >>)
        \o (IF maxSeverity >= 750000
            THEN << "Immediate escalation required" >> ELSE << >>)
  IN Take(actions, maxNextActions)

\* The better of two lags in the loop over the other episodes.
\* The body of the lead-lag loop: bestLag after the turn of one episode.
BestLagStep(cause, episode, leadMs, best) ==
  CHOOSE next \in
    {IF ScoreAbove(lag.num, lag.den, best.num, best.den) THEN lag ELSE best :
       lag \in {corrLeadLag(
                  [k \in DOMAIN cause.alerts |-> cause.alerts[k].ts],
                  [k \in DOMAIN episode.alerts |-> episode.alerts[k].ts],
                  leadMs)}} : TRUE

RECURSIVE BestLagLoop(_, _, _, _, _)
BestLagLoop(cause, others, i, leadMs, best) ==
  IF i > Len(others) THEN best
  ELSE CHOOSE res \in
         {BestLagLoop(cause, others, i + 1, leadMs, next) :
            next \in {BestLagStep(cause, others[i], leadMs, best)}} : TRUE

\* Math.min(1, composite)
confidenceOf(composite) == Min2(ScoreUnit, composite)

\* The echo penalty: Math.max(0, (sum of the source-mix sizes - n) * 0.05).
echoPenaltyOf(episodes) ==
  Max2(0, (SumSeq([i \in DOMAIN episodes |-> Len(episodes[i].vendorMix)])
           - Len(episodes)) * echoStep * (ScoreUnit \div 100))

\* The composite of scoreSituation, in millionths.
compositeOf(situation, sortedEpisodes, bestLag, graphHints) ==
  LET cause == sortedEpisodes[1]
      others == Tail(sortedEpisodes)
      paths == [i \in DOMAIN others |->
                  shortestPathLen(graphHints.adj, cause.entity_key,
                                  others[i].entity_key, pathLimit)]
      bestPath == IF others = << >> THEN Infinity ELSE MinSeq(paths)
      pathScore == pathScoreOf(bestPath)
      cardinality == Log(1 + situation.blast_radius.entities)
      severity == MaxSeq([i \in DOMAIN situation.episodes |->
                            severityWeight(situation.episodes[i].severity)])
      firstTs == situation.window.start
      changeNear ==
        \E a \in Range(situation.related_alerts) :
          /\ DeployKeyOf(a) # ""
          /\ a.ts - firstTs <= changeHorizonMs
          /\ firstTs - a.ts <= changeHorizonMs
      changeProx == IF changeNear THEN ScoreUnit ELSE ScoreUnit \div 5
      flapPenalty == 0
      echoPenalty == echoPenaltyOf(situation.episodes)
  IN (w1 * changeProx + w2 * bestLag.score + w3 * pathScore + w4 * cardinality
      + w5 * severity - w6 * flapPenalty - w7 * echoPenalty) \div 100

\* The situation after scoreSituation, given the values it computed.
Scored(situation, cause, bestLag, composite, sizeDefined) ==
  [f \in DOMAIN situation \cup {"primary_cause", "next_actions"} |->
     CASE f = "primary_cause" ->
            [entity |-> cause.entity_key,
             episodeIdx |-> CHOOSE i \in DOMAIN situation.episodes :
                              /\ situation.episodes[i] = cause
                              /\ \A j \in 1..(i - 1) :
                                   situation.episodes[j] # cause,
             confidence |-> IF sizeDefined THEN confidenceOf(composite) ELSE 0,
             confidenceNaN |-> ~sizeDefined,
             lag_ms |-> bestLag.lagMs]
       [] f = "next_actions" -> generateNextActions(cause, situation)
       [] f = "score" -> IF sizeDefined THEN composite ELSE 0
       [] f = "scoreNaN" -> ~sizeDefined
       [] OTHER -> situation[f]]

\* scoreSituation: the situation object after the call.  sizeDefined tells
\* whether the expression the source reads the size of a source mix with is
\* defined on the episodes it is given; an undefined size makes the sum, the
\* penalty and the composite NaN.
scoreSituation(situation, graphHints, leadMs, sizeDefined) ==
  CHOOSE scored \in
    {CHOOSE r \in
       {CHOOSE q \in
          {Scored(situation, sortedEpisodes[1], bestLag, composite, sizeDefined) :
             composite \in {compositeOf(situation, sortedEpisodes, bestLag,
                                        graphHints)}} : TRUE :
          bestLag \in {BestLagLoop(sortedEpisodes[1], Tail(sortedEpisodes), 1,
                                   leadMs, [lagMs |-> 0, num |-> 0, den |-> 1,
                                            score |-> 0])}} : TRUE :
       sortedEpisodes \in {SortByStart(situation.episodes)}} : TRUE

\* situations.sort((a, b) => b.score - a.score): a stable sort, descending;
\* a NaN difference counts as 0, so NaN scores leave the order as it is.
SortByScore(situations) ==
  Pick(situations,
       SortedIdx([i \in DOMAIN situations |->
                    IF situations[i].scoreNaN THEN 0 ELSE 0 - situations[i].score]))

\* The 'score' message handler: build, score each, sort.
ScoreHandler(episodes, alerts, graphHints, leadMs, sizeDefined) ==
  CHOOSE sorted \in
    {SortByScore(scored) :
       scored \in {[i \in DOMAIN situations |->
                      scoreSituation(situations[i], graphHints, leadMs,
                                     sizeDefined)] :
                     situations \in {buildSituations(episodes, alerts)}}} : TRUE

(***************************************************************************)
(* In-process correlation engine (src/main.js).  Its EpisodeClusterer has  *)
(* the text of the worker's functions, without the burst pre-sort.         *)
(***************************************************************************)
\* `${fingerprint || kind}|${severity}|${entity_key || service || 'na'}`
EngineDedupKey(a) ==
  << IF a.fingerprint # "" THEN a.fingerprint ELSE a.kind, a.severity,
     IF a.entity_key # "" THEN a.entity_key
     ELSE IF a.service # "" THEN a.service ELSE "na" >>

\* CorrelationEngine.deduplicateAlerts: `seen` is local to the call.
deduplicateStep(acc, a, ttlMs) ==
  LET key == EngineDedupKey(a)
  IN IF a.ts - GetOr0(acc.seen, key) >= ttlMs
     THEN [seen |-> Put(acc.seen, key, a.ts), uniq |-> Append(acc.uniq, a)]
     ELSE acc

RECURSIVE deduplicateLoop(_, _, _, _, _)
deduplicateLoop(acc, alerts, lo, hi, ttlMs) ==
  IF lo > hi THEN acc
  ELSE IF lo = hi THEN deduplicateStep(acc, alerts[lo], ttlMs)
  ELSE LET mid == (lo + hi) \div 2
           left == deduplicateLoop(acc, alerts, lo, mid, ttlMs)
       IN IF left = left  \* the first half is evaluated first
          THEN deduplicateLoop(left, alerts, mid + 1, hi, ttlMs) ELSE left

deduplicateAlerts(alerts, ttlMs) ==
  deduplicateLoop([seen |-> EmptyMap, uniq |-> << >>], alerts, 1, Len(alerts),
                  ttlMs).uniq

\* CorrelationEngine.buildEpisodes
buildEpisodes(eps, idx, alerts, gapMs, winMs, clock, clock2) ==
  LET loop == AssignEpisodes(eps, idx, alerts, gapMs)
      kept == cleanupOldEpisodes(loop.episodes, loop.entityEpisodes, winMs, clock)
  IN [episodes |-> kept.episodes, entityEpisodes |-> kept.entityEpisodes,
      data |-> [episodes |-> getEpisodesInWindow(kept.episodes, winMs, clock2),
                alertsKept |-> alerts],
      log |-> loop.log]

(***************************************************************************)
(* State.                                                                  *)
(***************************************************************************)
VARIABLES
  now,            \* the wall clock, Date.now()
  feed,           \* the workload of the run: what alerts the sources send
  sent,           \* how many alerts the sources have sent
  ticks,          \* how many messages / timer ticks have been handled
  state,          \* dedup worker: {lastSeen, counts, flapCounts, lastToggle}
  dedupIn,        \* the batch of the dedup message handled last
  dedupOut,       \* the data of the dedup worker's last reply
  dedupLog,       \* per alert of that batch: what updateDedupState did
  downstream,     \* every alert the dedup worker has passed on so far
  episodes,       \* clusterer: Map key -> Episode
  entityEpisodes, \* clusterer: Map entity_key -> keys
  clusterIn,      \* the batch of the cluster message handled last
  clusterOut,     \* the data of the clusterer's last reply
  clusterLog,     \* per alert of that batch: the episode before and after
  recent,         \* engine: the ingress queue
  lastActivity,   \* engine: Map entity_key or situation id -> last activity
  tick,           \* engine: how the last processBatch ended
  scoreIn,        \* the episodes and alerts of the score message handled last
  scoreOut,       \* the situation list of the scorer's last reply
  situations,     \* engine: Map situation_id -> Situation
  published,      \* engine: the list of the last 'situations-updated' event
  emissions,      \* engine: how many 'situations-updated' events were sent
  config,         \* engine: the running configuration
  ruleStates,     \* threshold engine: Map rule|key -> event times
  cooldowns,      \* threshold engine: Map rule|key -> end of the cooldown
  generatedAlerts, \* threshold engine: the alerts synthesized so far
  k8sLog,         \* threshold engine: the last raw event and the rules it matched
  pathIn,         \* graph proximity: the adjacency, endpoints and limit asked
  pathOut,        \* graph proximity: what shortestPathLen returned
  lagIn,          \* lead-lag: the two timestamp lists and the lead asked
  lagOut,         \* lead-lag: what corrLeadLag returned
  isRunning,      \* engine: the isRunning flag
  timers,         \* engine: the live interval timers that call processBatch
  workers,        \* WorkerManager: the keys of the workers Map
  messageHandlers, \* WorkerManager: Map messageId -> the tick whose promise it settles
  inbox,          \* per worker: the messages posted to it, oldest first
  replies,        \* the worker replies whose onmessage has not run yet
  inflight,       \* Map tick -> the stage its processBatch call awaits
  allAlerts,      \* test data generator: the alerts collected from processEvent
  reconnectAttempts, \* alert stream: the reconnectAttempts field
  ws,             \* alert stream: the socket the ws field refers to, 0 for none
  sockets,        \* the sockets created and not closed yet: Map id -> readyState
  reconnectTimers, \* alert stream: the pending timeouts that call connect()
  connects,       \* alert stream: how many sockets were created
  disconnected    \* alert stream: disconnect() has been called

vars == << now, feed, sent, ticks, state, dedupIn, dedupOut, dedupLog,
           downstream, episodes, entityEpisodes, clusterIn, clusterOut,
           clusterLog, recent, lastActivity, tick, scoreIn, scoreOut,
           situations, published, emissions, config, ruleStates, cooldowns,
           generatedAlerts, k8sLog, pathIn, pathOut, lagIn, lagOut,
           isRunning, timers, workers, messageHandlers, inbox, replies,
           inflight, allAlerts, reconnectAttempts, ws, sockets,
           reconnectTimers, connects, disconnected >>

dedupVars == << state, dedupIn, dedupOut, dedupLog, downstream >>
clusterVars == << episodes, entityEpisodes, clusterIn, clusterOut, clusterLog >>
engineVars == << recent, lastActivity, tick >>
scoreVars == << scoreIn, scoreOut >>
driverVars == << situations, published, emissions, config >>
k8sVars == << ruleStates, cooldowns, generatedAlerts, k8sLog >>
fnVars == << pathIn, pathOut, lagIn, lagOut >>
lifeVars == << isRunning, timers >>
managerVars == << workers, messageHandlers, inbox, replies, inflight >>
genVars == << allAlerts >>
streamVars == << reconnectAttempts, ws, sockets, reconnectTimers, connects,
                disconnected >>
extraVars == << genVars, streamVars >>
auxVars == << fnVars, lifeVars, managerVars, extraVars >>

(***************************************************************************)
(* Workloads.  Alert number i of a run carries the timestamp sched[i]; its *)
(* other fields are any of the workload's shapes; a batch has one of the   *)
(* workload's sizes.                                                       *)
(***************************************************************************)
Ent(name) == [entity_key |-> name, service |-> "", component |-> "", resource |-> ""]
Svc(name) == [entity_key |-> "", service |-> name, component |-> "", resource |-> ""]

Shapes(ents, fps, stats, sevs, srcs) ==
  [ent : ents, fp : fps, status : stats, sev : sevs, src : srcs]

SmallSizes == 1..MaxBatch

\* One alert a second.
Steady == [i \in 1..MaxAlerts |-> T0 + hopMs * (i - 1)]

\* The same alert again within and at the edge of the TTL.
FeedRepeat ==
  [sched |-> << T0, T0 + 30000, T0 + dedupTtlMs, T0 + 2 * dedupTtlMs - 1 >>,
   sizes |-> SmallSizes,
   shapes |-> Shapes({Ent("svc-a"), Svc("svc-a")}, {"cpu_high", "CPU-High"},
                     {"firing"}, {"high"}, {"k8s"})]

\* One key whose status may toggle.
FeedFlap ==
  [sched |-> Steady, sizes |-> SmallSizes,
   shapes |-> Shapes({Ent("svc-a")}, {"cpu_high"}, {"firing", "resolved"},
                     {"high"}, {"k8s"})]

\* Two entities, timestamps out of order.
FeedDisorder ==
  [sched |-> << T0 + 60000, T0, T0 + 30000 >>, sizes |-> 1..(MaxBatch + 1),
   shapes |-> Shapes({Ent("svc-a"), Ent("svc-b")}, {"cpu_high"}, {"firing"},
                     {"high"}, {"k8s"})]

\* Timestamps below the TTL (a source whose clock starts at zero).
FeedEarly ==
  [sched |-> << hopMs, 30000, 3 * dedupTtlMs >>, sizes |-> SmallSizes,
   shapes |-> Shapes({Ent("svc-a")}, {"cpu_high"}, {"firing", "resolved"},
                     {"high"}, {"k8s"})]

\* A storm of one entity: batches of the rate ceiling and one more.
FeedStorm ==
  [sched |-> [i \in 1..(MaxTicks * (maxAlertsPerMinute + 1)) |-> T0 + i],
   sizes |-> {maxAlertsPerMinute, maxAlertsPerMinute + 1},
   shapes |-> Shapes({Ent("svc-a")}, {"cpu_high"}, {"firing"}, {"high"}, {"k8s"})]

\* One key with a long silence before the third alert.
FeedGap ==
  [sched |-> << T0, T0 + 60000, T0 + 300000, T0 + 300000 + episodeGapMs >>,
   sizes |-> SmallSizes,
   shapes |-> Shapes({Ent("svc-a")}, {"cpu_high"}, {"firing"},
                     {"low", "critical"}, {"k8s", "datadog"})]

\* Two entities, one alert a second.
FeedPair ==
  [sched |-> Steady, sizes |-> SmallSizes,
   shapes |-> Shapes({Ent("svc-a"), Ent("svc-b")}, {"cpu_high"}, {"firing"},
                     {"high"}, {"k8s"})]

\* One key that asks for every next action, in one batch at the related-alert
\* cap or one more.
FeedFlood ==
  [sched |-> [i \in 1..(maxRelatedAlerts + 1) |-> T0 + i],
   sizes |-> {maxRelatedAlerts, maxRelatedAlerts + 1},
   shapes |-> Shapes({Ent("database-api-cache")}, {"cpu_high"}, {"firing"},
                     {"critical"}, {"k8s"})]

\* Three entities a second apart, one of them with a number for entity_key.
FeedMalformed ==
  [sched |-> SubSeq(Steady, 1, 3), sizes |-> SmallSizes,
   shapes |-> Shapes({Ent("svc-a"), Ent("svc-b"), Ent("#42")}, {"cpu_high"},
                     {"firing"}, {"high"}, {"k8s"})]

\* Two fingerprints on each of two entities; the last alert arrives a window
\* and a hop after the first two.
FeedIndex ==
  [sched |-> << T0, T0 + 1, T0 + windowMs + hopMs >>, sizes |-> SmallSizes,
   shapes |-> Shapes({Ent("svc-a"), Ent("svc-b")}, {"cpu_high", "mem_high"},
                     {"firing"}, {"high"}, {"k8s"})]

\* One key, three alerts of one timestamp and a later one.
FeedTie ==
  [sched |-> << T0, T0, T0, T0 + hopMs >>, sizes |-> SmallSizes,
   shapes |-> Shapes({Ent("svc-a")}, {"cpu_high"}, {"firing"}, {"high"},
                     {"k8s"})]

DedupFeeds == {FeedRepeat, FeedFlap, FeedDisorder, FeedEarly, FeedStorm}
ClusterFeeds == {FeedGap, FeedDisorder, FeedPair, FeedIndex}
PipelineFeeds == {FeedFlood, FeedGap}
EngineFeeds == {FeedGap, FeedMalformed, FeedTie}

\* The next k alerts of the workload, with the shapes sh[1..k].
NextAlerts(f, n, k, sh) ==
  [j \in 1..k |-> MkAlert(n + j, f.sched[n + j], sh[j].src, sh[j].fp, "",
                          sh[j].status, sh[j].sev, sh[j].ent)]

\* Time between two handled messages: one hop, or a whole window.
ClockSteps == {hopMs, windowMs}
\* Date.now() may advance by a millisecond between two reads in a handler.
ClockDrift == {0, 1}

\* graphHints as constructed: { adj: {}, metadata: {} }
NoHints == [adj |-> << >>]

DEFAULT_CONFIG ==
  [windowMs |-> windowMs, hopMs |-> hopMs, dedupTtlMs |-> dedupTtlMs,
   episodeGapMs |-> episodeGapMs, maxLeadMs |-> maxLeadMs,
   maxSituationLifetime |-> maxSituationLifetime,
   quietThreshold |-> quietThreshold]

\* initializeWorkers: the three keys of the workers Map.
WorkerTypes == {"dedup", "cluster", "score"}

EmptyDedupState ==
  [lastSeen |-> EmptyMap, counts |-> EmptyMap, flapCounts |-> EmptyMap,
   lastToggle |-> EmptyMap]

InitCommon ==
  /\ now = T0
  /\ sent = 0
  /\ ticks = 0
  /\ state = EmptyDedupState
  /\ dedupIn = << >>
  /\ dedupOut = << >>
  /\ dedupLog = << >>
  /\ downstream = {}
  /\ episodes = << >>
  /\ entityEpisodes = EmptyMap
  /\ clusterIn = << >>
  /\ clusterOut = [episodes |-> << >>, alertsKept |-> << >>]
  /\ clusterLog = << >>
  /\ recent = << >>
  /\ lastActivity = EmptyMap
  /\ tick = "none"
  /\ scoreIn = [episodes |-> << >>, alerts |-> << >>, graphHints |-> NoHints]
  /\ scoreOut = << >>
  /\ situations = << >>
  /\ published = << >>
  /\ emissions = 0
  /\ config = DEFAULT_CONFIG
  /\ ruleStates = EmptyMap
  /\ cooldowns = EmptyMap
  /\ generatedAlerts = << >>
  /\ k8sLog = [event |-> << >>, matched |-> << >>, threw |-> ""]
  /\ pathIn = << >>
  /\ pathOut = 0
  /\ lagIn = << >>
  /\ lagOut = << >>
  /\ isRunning = FALSE
  /\ timers = 0
  /\ workers = WorkerTypes
  /\ messageHandlers = EmptyMap
  /\ inbox = [w \in WorkerTypes |-> << >>]
  /\ replies = << >>
  /\ inflight = EmptyMap
  /\ allAlerts = << >>
  /\ reconnectAttempts = 0
  /\ ws = 0
  /\ sockets = EmptyMap
  /\ reconnectTimers = 0
  /\ connects = 0
  /\ disconnected = FALSE

(***************************************************************************)
(* The dedup worker on its own: one 'dedup' message after another.         *)
(***************************************************************************)
DedupMessage(step, k, sh) ==
  LET batch == NextAlerts(feed, sent, k, sh)
      r == DedupHandler(state, batch, dedupTtlMs, now + step)
  IN /\ now' = now + step
     /\ sent' = sent + k
     /\ ticks' = ticks + 1
     /\ state' = r.st
     /\ dedupIn' = batch
     /\ dedupOut' = r.data
     /\ dedupLog' = r.log
     /\ downstream' = downstream \cup Range(r.data)
     /\ UNCHANGED << auxVars, feed, clusterVars, engineVars, scoreVars, driverVars,
                    k8sVars >>

InitDedup == InitCommon /\ feed \in DedupFeeds

NextDedup ==
  \E step \in ClockSteps, k \in feed.sizes :
    /\ ticks < MaxTicks
    /\ sent + k <= Len(feed.sched)
    /\ \E sh \in [1..k -> feed.shapes] : DedupMessage(step, k, sh)

SpecDedup == InitDedup /\ [][NextDedup]_vars

(***************************************************************************)
(* The cluster worker on its own: one 'cluster' message after another.     *)
(***************************************************************************)
ClusterMessage(step, drift, k, sh) ==
  \E batch \in {NextAlerts(feed, sent, k, sh)} :
  \E r \in {ClusterHandler(episodes, entityEpisodes, batch, episodeGapMs,
                           windowMs, now + step, now + step + drift)} :
     /\ now' = now + step + drift
     /\ sent' = sent + k
     /\ ticks' = ticks + 1
     /\ episodes' = r.episodes
     /\ entityEpisodes' = r.entityEpisodes
     /\ clusterIn' = batch
     /\ clusterOut' = r.data
     /\ clusterLog' = r.log
     /\ UNCHANGED << auxVars, feed, dedupVars, engineVars, scoreVars, driverVars,
                    k8sVars >>

InitCluster == InitCommon /\ feed \in ClusterFeeds

NextCluster ==
  \E step \in ClockSteps, drift \in ClockDrift, k \in feed.sizes :
    /\ ticks < MaxTicks
    /\ sent + k <= Len(feed.sched)
    /\ \E sh \in [1..k -> feed.shapes] : ClusterMessage(step, drift, k, sh)

SpecCluster == InitCluster /\ [][NextCluster]_vars

(***************************************************************************)
(* The score worker on its own: one 'score' message, its episodes, alerts  *)
(* and graph hints drawn from the inputs below.                            *)
(***************************************************************************)
MaxEpisodes == 3
MaxSources == 90

\* An episode as a cluster reply carries it: alerts at its start and its end.
EpisodeOf(id, entity, fp, mix, sev, start, end) ==
  LET first == MkAlert(id, start, mix[1], fp, "", "firing", sev, Ent(entity))
      last == MkAlert(id + 1, end, mix[1], fp, "", "firing", sev, Ent(entity))
  IN [entity_key |-> entity, fingerprint |-> << fp >>, vendorMix |-> mix,
      start |-> start, end |-> end,
      count |-> IF start = end THEN 1 ELSE 2,
      ids |-> IF start = end THEN << id >> ELSE << id, id + 1 >>,
      alerts |-> IF start = end THEN << first >> ELSE << first, last >>,
      severity |-> sev]

\* Episodes of eight keys: some joined by entity, by fingerprint or by their
\* sources while their times overlap, some joined to nothing.
CoreEpisodes ==
  {EpisodeOf(1, "svc-a", "cpu_high", << "k8s" >>, "low", T0, T0 + 5000),
   EpisodeOf(3, "svc-a", "mem", << "datadog" >>, "high", T0 + 4000, T0 + 9000),
   EpisodeOf(5, "svc-b", "mem", << "datadog" >>, "critical", T0 + 8000,
             T0 + 12000),
   EpisodeOf(7, "svc-b", "disk", << "k8s", "datadog" >>, "medium", T0,
             T0 + 5000),
   EpisodeOf(9, "database-api-cache", "conn", << "logicmonitor" >>, "critical",
             T0 + 600000, T0 + 600000),
   EpisodeOf(11, "api-gw", "latency", << "logicmonitor" >>, "low", T0 + 2000,
             T0 + 5000),
   EpisodeOf(15, "api-gw", "errors", << "datadog", "logicmonitor" >>, "medium",
             T0 + 5000, T0 + 8000),
   EpisodeOf(17, "svc-d", "queue", << "k8s" >>, "low", T0 + 600000,
             T0 + 600000)}

\* An episode that alerts of MaxSources different sources were folded into.
ManySources == [i \in 1..MaxSources |-> "vendor-" \o ToString(i)]
EchoEpisode ==
  EpisodeOf(13, "svc-c", "echo", ManySources, "low", T0 + 1000, T0 + 3000)

\* The lists of up to n different episodes of a set.
RECURSIVE ListsOf(_, _)
ListsOf(S, n) ==
  IF n = 0 THEN {<< >>}
  ELSE LET shorter == ListsOf(S, n - 1)
       IN shorter \cup {Append(l, e) : l \in {x \in shorter : Len(x) = n - 1},
                                       e \in S}

EpisodeLists ==
  {l \in ListsOf(CoreEpisodes, MaxEpisodes) :
     \A i, j \in DOMAIN l : i # j => l[i] # l[j]}
  \cup {<< EchoEpisode >>}
  \cup {<< e, EchoEpisode >> : e \in CoreEpisodes}

AlertsOf(eps) == Concat([i \in DOMAIN eps |-> eps[i].alerts])

\* An alert that carries a deploy_key, at the start of the run.
DeployAlert ==
  LET a == MkAlert(99, T0, "other", "deploy", "", "info", "low", Ent("svc-a"))
  IN [f \in DOMAIN a \cup {"deploy_key"} |->
        IF f = "deploy_key" THEN "sha-1" ELSE a[f]]

\* svc-a -> svc-b -> api-gw
ChainHints ==
  [adj |-> [n \in {"svc-a", "svc-b", "api-gw"} |->
              CASE n = "svc-a" -> << "svc-b" >>
                [] n = "svc-b" -> << "api-gw" >>
                [] OTHER -> << >>]]

ScoreInputs ==
  {[episodes |-> l, alerts |-> AlertsOf(l) \o extra, graphHints |-> h] :
     l \in EpisodeLists, extra \in {<< >>, << DeployAlert >>},
     h \in {NoHints, ChainHints}}

\* self.onmessage of the score worker.
ScoreMessage(message) ==
  /\ scoreIn' = message
  /\ scoreOut' = ScoreHandler(message.episodes, message.alerts,
                              message.graphHints, maxLeadMs, TRUE)
  /\ ticks' = ticks + 1
  /\ UNCHANGED << auxVars, now, feed, sent, dedupVars, clusterVars, engineVars,
                  driverVars, k8sVars >>

InitScore == InitCommon /\ feed = FeedPair

NextScore == \E message \in ScoreInputs : ticks = 0 /\ ScoreMessage(message)

SpecScore == InitScore /\ [][NextScore]_vars

(***************************************************************************)
(* The cluster and score workers in a row: main.ts sends the data of a     *)
(* cluster reply on as the next score message.                             *)
(***************************************************************************)
ClusterReply ==
  [episodes |-> clusterOut.episodes, alerts |-> clusterOut.alertsKept,
   graphHints |-> NoHints]

ScoreClusterReply ==
  /\ ticks > 0
  /\ scoreIn # ClusterReply
  /\ scoreIn' = ClusterReply
  /\ scoreOut' = ScoreHandler(ClusterReply.episodes, ClusterReply.alerts,
                              ClusterReply.graphHints, maxLeadMs, TRUE)
  /\ UNCHANGED << auxVars, now, feed, sent, ticks, dedupVars, clusterVars, engineVars,
                  driverVars, k8sVars >>

InitPipeline == InitCommon /\ feed \in PipelineFeeds

NextPipeline ==
  \/ NextCluster
  \/ ScoreClusterReply

SpecPipeline == InitPipeline /\ [][NextPipeline]_vars

(***************************************************************************)
(* The in-process engine: alerts are queued by addAlert and the interval   *)
(* timer runs processBatch.  processBatch has no await, so it runs to its  *)
(* end before anything else does.                                          *)
(***************************************************************************)
\* A queue that takes a new alert at its front.
addAlertFront(a) ==
  /\ recent' = << a >> \o recent
  /\ lastActivity' = Put(lastActivity,
                         IF a.entity_key # "" THEN a.entity_key ELSE "unknown",
                         now)

\* CorrelationEngine.addAlert
addAlert(a) ==
  /\ recent' = Append(recent, a)
  /\ lastActivity' = Put(lastActivity,
                         IF a.entity_key # "" THEN a.entity_key ELSE "unknown",
                         now)

AddAlert(sh) ==
  /\ sent < Len(feed.sched)
  /\ Len(recent) < MaxBatch
  /\ addAlert(NextAlerts(feed, sent, 1, << sh >>)[1])
  /\ sent' = sent + 1
  /\ UNCHANGED << auxVars, now, feed, ticks, dedupVars, clusterVars, tick, scoreVars,
                  driverVars, k8sVars >>

\* The first loop of updateSituations: set every situation and its activity.
RECURSIVE SetSituations(_, _, _, _)
SetSituations(acc, list, i, clock) ==
  IF i > Len(list) THEN acc
  ELSE CHOOSE res \in
         {SetSituations(next, list, i + 1, clock) :
            next \in
              {[situations |->
                  OSet(acc.situations, list[i].situation_id, list[i]),
                lastActivity |->
                  Put(acc.lastActivity, list[i].situation_id, clock)]}} : TRUE

\* now - situation.window.end > maxSituationLifetime
expired(situation, clock, lifetime) == clock - situation.window.end > lifetime

\* The second loop of updateSituations: delete the situations that expired.
RECURSIVE ExpireSituations(_, _, _, _, _)
ExpireSituations(acc, entries, i, clock, lifetime) ==
  IF i > Len(entries) THEN acc
  ELSE CHOOSE res \in
         {ExpireSituations(next, entries, i + 1, clock, lifetime) :
            next \in
              {IF expired(entries[i].value, clock, lifetime)
               THEN [situations |-> ODelete(acc.situations, entries[i].key),
                     lastActivity |-> Del(acc.lastActivity, entries[i].key)]
               ELSE acc}} : TRUE

\* CorrelationEngine.updateSituations: the stored Map and lastActivity after it.
updateSituations(stored, activity, list, clock, lifetime) ==
  CHOOSE res \in
    {ExpireSituations(set, set.situations, 1, clock, lifetime) :
       set \in {SetSituations([situations |-> stored,
                               lastActivity |-> activity], list, 1, clock)}}
    : TRUE

\* CorrelationEngine.getSituations
getSituations == OValues(situations)

\* A value that is no string (the number 42 of a JSON payload), by its name.
NumericKey == "#42"
IsString(v) == v # NumericKey

\* generateNextActions calls cause.entity_key.includes, which throws a
\* TypeError when the entity key of a cause is no string.
ScoreThrows(eps, alerts) ==
  \E s \in Range(buildSituations(eps, alerts)) :
    ~IsString(SortByStart(s.episodes)[1].entity_key)

\* CorrelationEngine.buildAndScoreSituations.  The episodes buildEpisodes
\* returns carry vendorMix as arrays, and the scorer reads vendorMix.size.
buildAndScoreSituations(eps, alerts, graphHints, leadMs) ==
  ScoreHandler(eps, alerts, graphHints, leadMs, FALSE)

\* CorrelationEngine.processBatch: getBatch, then inside the try
\* deduplicateAlerts, buildEpisodes, buildAndScoreSituations, updateSituations
\* and emitSituations; the catch only logs.
ProcessBatch(step, drift) ==
  LET batch == recent  \* getBatch()
  IN /\ ticks < MaxTicks
     /\ ticks' = ticks + 1
     /\ recent' = << >>
     /\ IF batch = << >>
        THEN /\ now' = now + step
             /\ tick' = "empty"
             /\ UNCHANGED << dedupIn, dedupOut, clusterVars, scoreVars,
                             situations, published, emissions, lastActivity >>
        ELSE \E uniqAlerts \in {deduplicateAlerts(batch, config.dedupTtlMs)} :
             \E r \in {buildEpisodes(episodes, entityEpisodes, uniqAlerts,
                                     config.episodeGapMs, config.windowMs,
                                     now + step, now + step + drift)} :
               /\ now' = now + step + drift
               /\ dedupIn' = batch
               /\ dedupOut' = uniqAlerts
               /\ episodes' = r.episodes
               /\ entityEpisodes' = r.entityEpisodes
               /\ clusterIn' = uniqAlerts
               /\ clusterOut' = r.data
               /\ clusterLog' = r.log
               /\ scoreIn' = [episodes |-> r.data.episodes,
                              alerts |-> r.data.alertsKept,
                              graphHints |-> NoHints]
               /\ IF ScoreThrows(r.data.episodes, r.data.alertsKept)
                  THEN /\ tick' = "failed"
                       /\ UNCHANGED << scoreOut, situations, published,
                                       emissions, lastActivity >>
                  ELSE \E scored \in
                         {buildAndScoreSituations(r.data.episodes,
                                                  r.data.alertsKept, NoHints,
                                                  config.maxLeadMs)} :
                       \E u \in {updateSituations(
                                   situations, lastActivity, scored,
                                   now + step + drift,
                                   config.maxSituationLifetime)} :
                         /\ tick' = "processed"
                         /\ scoreOut' = scored
                         /\ situations' = u.situations
                         /\ lastActivity' = u.lastActivity
                         /\ published' = scored
                         /\ emissions' = emissions + 1
     /\ UNCHANGED << auxVars, feed, sent, state, dedupLog, downstream, config, k8sVars >>

InitEngine == InitCommon /\ feed \in EngineFeeds

NextEngine ==
  \/ \E sh \in feed.shapes : AddAlert(sh)
  \/ \E step \in ClockSteps, drift \in ClockDrift : ProcessBatch(step, drift)

SpecEngine == InitEngine /\ [][NextEngine]_vars

(***************************************************************************)
(* The engine while its configuration is updated between ticks.            *)
(***************************************************************************)
\* The partial configurations a caller hands to updateConfig.
ConfigUpdates ==
  {[hopMs |-> 0], [hopMs |-> 0 - hopMs], [hopMs |-> 2 * hopMs],
   [windowMs |-> 0, hopMs |-> hopMs]}

\* { ...this.config, ...config }
Merge(base, updates) ==
  [f \in DOMAIN base \cup DOMAIN updates |->
     IF f \in DOMAIN updates THEN updates[f] ELSE base[f]]

\* CorrelationEngine.updateConfig
UpdateConfig(updates) ==
  /\ config' = Merge(config, updates)
  /\ UNCHANGED << auxVars, now, feed, sent, ticks, dedupVars, clusterVars, engineVars,
                  scoreVars, situations, published, emissions, k8sVars >>

InitConfig == InitCommon /\ feed = FeedMalformed

NextConfig ==
  \/ \E sh \in feed.shapes : AddAlert(sh)
  \/ \E step \in ClockSteps, drift \in ClockDrift : ProcessBatch(step, drift)
  \/ \E updates \in ConfigUpdates : UpdateConfig(updates)

SpecConfig == InitConfig /\ [][NextConfig]_vars

(***************************************************************************)
(* The threshold engine: K8sEventProcessor folds raw cluster events into   *)
(* alerts, by the rules of CONFIG.k8sRules.                                *)
(***************************************************************************)
MaxEvents == 4

\* CONFIG.k8sRules.  A match is the list of its [field, value] entries.
k8sRules ==
  << [name |-> "CrashLoopBackOff bursts",
      key |-> << "namespace", "involvedObject.name" >>,
      match |-> << << "reason", "BackOff" >>, << "type", "Warning" >> >>,
      threshold |-> 5, severity |-> "high",
      window |-> 5 * 60 * 1000, cooldown |-> 10 * 60 * 1000],
     [name |-> "ImagePull failures",
      key |-> << "namespace", "reason" >>,
      match |-> << << "reason", "Failed" >>,
                   << "messagePattern", "ImagePull" >> >>,
      threshold |-> 3, severity |-> "medium",
      window |-> 5 * 60 * 1000, cooldown |-> 10 * 60 * 1000],
     [name |-> "Node not ready",
      key |-> << "involvedObject.kind", "involvedObject.name" >>,
      match |-> << << "reason", "NodeNotReady" >> >>,
      threshold |-> 1, severity |-> "critical",
      window |-> 5 * 60 * 1000, cooldown |-> 15 * 60 * 1000],
     [name |-> "Excessive Pod Evictions",
      key |-> << "namespace", "reason" >>,
      match |-> << << "reason", "Evicted" >> >>,
      threshold |-> 10, severity |-> "medium",
      window |-> 10 * 60 * 1000, cooldown |-> 15 * 60 * 1000],
     [name |-> "ConfigMap Change Spike",
      key |-> << "namespace", "involvedObject.kind" >>,
      match |-> << << "reason", "Modified" >>,
                   << "involvedObjectKind", "ConfigMap" >> >>,
      threshold |-> 7, severity |-> "low",
      window |-> 15 * 60 * 1000, cooldown |-> 20 * 60 * 1000] >>

\* new Date(undefined).getTime(): the ts of an event whose data has no ts.
\* Every comparison with it is false.
NaN == 0 - 1

\* data.message of a raw event that has no message.
Undefined == "undefined"

\* new K8sEvent(data), its timestamp aside.
EventOf(namespace, reason, type, message, kind, name) ==
  [namespace |-> namespace, reason |-> reason, type |-> type,
   message |-> message, involvedObject |-> [kind |-> kind, name |-> name]]

\* The raw events of a run.
K8sShapes ==
  {EventOf("prod", "BackOff", "Warning", "Back-off restarting failed container",
           "Pod", "web-1"),
   EventOf("prod", "Failed", "Warning", "Failed to pull image: ImagePullBackOff",
           "Pod", "web-1"),
   EventOf("prod", "Failed", "Warning", "Readiness probe failed",
           "Pod", "web-1"),
   EventOf("", "NodeNotReady", "Warning", "Node node-1 status is now: NodeNotReady",
           "Node", "node-1"),
   EventOf("prod", "Evicted", "Warning", "The node was low on resource: memory",
           "Pod", "web-1"),
   EventOf("prod", "Modified", "Normal", "ConfigMap app-config was modified",
           "ConfigMap", "app-config")}

\* The time between two raw events.
K8sSteps == {0, 5 * 60 * 1000, 10 * 60 * 1000}

\* this.message.includes(value), for the messages and patterns of a run.
MessageIncludes(message, value) ==
  /\ value = "ImagePull"
  /\ message = "Failed to pull image: ImagePullBackOff"

\* this[key], for the top-level fields the rules name.
EventField(event, k) ==
  CASE k = "namespace" -> event.namespace
    [] k = "reason" -> event.reason
    [] k = "type" -> event.type
    [] k = "message" -> event.message

\* K8sEvent.matches raising the TypeError of this.message.includes: the
\* loop over the entries of rule.match reaches a messagePattern, no entry
\* before it having returned false, and the event has no message.
matchThrows(event, rule) ==
  \E i \in DOMAIN rule.match :
    /\ rule.match[i][1] = "messagePattern"
    /\ event.message = Undefined
    /\ \A j \in 1..(i - 1) :
         IF rule.match[j][1] = "involvedObjectKind"
         THEN event.involvedObject.kind = rule.match[j][2]
         ELSE EventField(event, rule.match[j][1]) = rule.match[j][2]

\* K8sEvent.matches
matches(event, rule) ==
  \A i \in DOMAIN rule.match :
    LET key == rule.match[i][1]
        value == rule.match[i][2]
    IN CASE key = "messagePattern" -> MessageIncludes(event.message, value)
         [] key = "involvedObjectKind" -> event.involvedObject.kind = value
         [] OTHER -> EventField(event, key) = value

\* Array.prototype.join("|")
RECURSIVE JoinBar(_)
JoinBar(parts) ==
  IF parts = << >> THEN ""
  ELSE IF Len(parts) = 1 THEN parts[1]
  ELSE parts[1] \o "|" \o JoinBar(Tail(parts))

\* K8sEvent.getKey
getKey(event, rule) ==
  JoinBar([i \in DOMAIN rule.key |->
             CASE rule.key[i] = "involvedObject.name" -> event.involvedObject.name
               [] rule.key[i] = "involvedObject.kind" -> event.involvedObject.kind
               [] OTHER -> EventField(event, rule.key[i])])

\* `${rule.name}|${key}`
RuleKeyOf(rule, event) == rule.name \o "|" \o getKey(event, rule)

\* while (state.length > 0 && state[0] < cutoff) state.shift()
RECURSIVE Prune(_, _)
Prune(times, cutoff) ==
  IF Len(times) > 0 /\ times[1] # NaN /\ cutoff # NaN /\ times[1] < cutoff
  THEN Prune(Tail(times), cutoff)
  ELSE times

\* A cooldown that still holds at the instant it ends.
isInCooldownInclusive(ends, ruleKey, t) ==
  Has(ends, ruleKey) /\ ends[ruleKey] # 0 /\ t # NaN /\ t <= ends[ruleKey]

\* K8sEventProcessor.isInCooldown: cooldownEnd && now < cooldownEnd
isInCooldown(ends, ruleKey, t) ==
  Has(ends, ruleKey) /\ ends[ruleKey] # 0 /\ t # NaN /\ t < ends[ruleKey]

\* A cooldown that is over when it starts.
startCooldownNow(ends, ruleKey, t, cooldownMs) == Put(ends, ruleKey, t)

\* K8sEventProcessor.startCooldown
startCooldown(ends, ruleKey, t, cooldownMs) == Put(ends, ruleKey, t + cooldownMs)

\* K8sEventProcessor.createAlertFromRule: the fields of alertData the rule
\* state decides; ts is the wall clock.
createAlertFromRule(rule, key, times, event, clock) ==
  [ts |-> clock, alert |-> rule.name, severity |-> rule.severity,
   namespace |-> event.namespace, reason |-> event.reason,
   count |-> Len(times), first_ts |-> times[1], last_ts |-> times[Len(times)],
   source |-> "k8s", status |-> "firing", service |-> event.namespace,
   rule |-> rule.name, key |-> key]

\* new Date(state[0]).toISOString() or that of the last entry raising the
\* RangeError of an invalid time value.
createThrows(times) == times[1] = NaN \/ times[Len(times)] = NaN

\* The loop of processEvent over CONFIG.k8sRules, from rule i on; an error
\* raised in it ends the call and leaves what was written before it.
RECURSIVE RuleLoop(_, _, _, _)
RuleLoop(acc, event, i, clock) ==
  IF i > Len(k8sRules) THEN acc
  ELSE IF matchThrows(event, k8sRules[i])
  THEN [acc EXCEPT !.threw = "TypeError"]
  ELSE LET rule == k8sRules[i]
           key == getKey(event, rule)
           ruleKey == RuleKeyOf(rule, event)
           old == IF Has(acc.ruleStates, ruleKey) THEN acc.ruleStates[ruleKey]
                  ELSE << >>
           t == event.ts
           times == Append(Prune(old, IF t = NaN THEN NaN ELSE t - rule.window),
                           t)
           emit == /\ Len(times) >= rule.threshold
                   /\ ~isInCooldown(acc.cooldowns, ruleKey, t)
       IN IF ~matches(event, rule) THEN RuleLoop(acc, event, i + 1, clock)
          ELSE IF emit /\ createThrows(times)
          THEN [acc EXCEPT !.ruleStates = Put(acc.ruleStates, ruleKey, times),
                           !.matched = Append(acc.matched, i),
                           !.threw = "RangeError"]
          ELSE RuleLoop(
                 [ruleStates |-> Put(acc.ruleStates, ruleKey, times),
                  cooldowns |->
                    IF emit THEN startCooldown(acc.cooldowns, ruleKey, t,
                                               rule.cooldown)
                    ELSE acc.cooldowns,
                  generatedAlerts |->
                    IF emit
                    THEN Append(acc.generatedAlerts,
                                createAlertFromRule(rule, key, times, event,
                                                    clock))
                    ELSE acc.generatedAlerts,
                  matched |-> Append(acc.matched, i), threw |-> acc.threw],
                 event, i + 1, clock)

\* K8sEventProcessor.processEvent, for a raw event that arrives when the
\* clock shows now + step and that carries this time as its ts if stamped.
ProcessRaw(shape, step, stamped) ==
  LET t == now + step
      event == [f \in DOMAIN shape \cup {"ts"} |->
                  IF f = "ts" THEN (IF stamped THEN t ELSE NaN) ELSE shape[f]]
      r == RuleLoop([ruleStates |-> ruleStates, cooldowns |-> cooldowns,
                     generatedAlerts |-> generatedAlerts, matched |-> << >>,
                     threw |-> ""],
                    event, 1, t)
  IN /\ ticks < MaxEvents
     /\ ticks' = ticks + 1
     /\ now' = t
     /\ ruleStates' = r.ruleStates
     /\ cooldowns' = r.cooldowns
     /\ generatedAlerts' = r.generatedAlerts
     /\ k8sLog' = [event |-> event, matched |-> r.matched, threw |-> r.threw]
     /\ UNCHANGED << auxVars, feed, sent, dedupVars, clusterVars, engineVars, scoreVars,
                     driverVars >>

\* processEvent for a raw event that has its ts.
ProcessEvent(shape, step) == ProcessRaw(shape, step, TRUE)

InitK8s == InitCommon /\ feed = FeedPair

NextK8s == \E shape \in K8sShapes, step \in K8sSteps : ProcessEvent(shape, step)

SpecK8s == InitK8s /\ [][NextK8s]_vars

(***************************************************************************)
(* Properties of the dedup worker.                                         *)
(***************************************************************************)
Ids(alerts) == {a.vendor_event_id : a \in alerts}
IndexIn(list, a) == CHOOSE i \in DOMAIN list : list[i] = a
SameDedupKey(a, b) == generateDedupKey(a) = generateDedupKey(b)
Dist(x, y) == IF x >= y THEN x - y ELSE y - x
OrZero(v) == IF v < 0 THEN 0 ELSE v
LastEntry == dedupLog[Len(dedupLog)]

\* The first message held the same alert twice, 30 s apart.
RepeatScenario ==
  /\ ticks = 1
  /\ Len(dedupIn) = 2
  /\ dedupIn[1].ts = T0
  /\ dedupIn[2].ts = T0 + 30000
  /\ SameDedupKey(dedupIn[1], dedupIn[2])
  /\ dedupIn[1].status = dedupIn[2].status

\* C1 (as claimed): of two alerts with the same dedup key, the same status and
\* timestamps less than dedupTTL apart, at most one is passed downstream; for
\* the alert at t and again at t+30000 exactly one goes downstream, the count
\* of the key is 2 and its flap count is 0.
C1_DedupIdempotence ==
  /\ \A a, b \in downstream :
       (a # b /\ SameDedupKey(a, b) /\ a.status = b.status
          /\ Dist(a.ts, b.ts) < dedupTtlMs) => FALSE
  /\ RepeatScenario =>
       /\ Len(dedupOut) = 1
       /\ GetOr0(state.counts, generateDedupKey(dedupIn[1])) = 2
       /\ GetOr0(state.flapCounts, generateDedupKey(dedupIn[1])) = 0

\* The alerts sent so far were one key at t, t+1000, ... with the status
\* toggling every time, the first one firing: n alerts leave n-1 toggles.
ToggledRun(n) ==
  /\ feed = FeedFlap
  /\ sent = n
  /\ dedupLog # << >>
  /\ LastEntry.alert.vendor_event_id = n
  /\ LastEntry.post.flapCount = n - 1
  /\ LastEntry.post.lastStatus = IF n % 2 = 0 THEN "resolved" ELSE "firing"

\* C2 (as claimed): of four alerts of one key at t, t+1000, t+2000, t+3000 with
\* statuses firing, resolved, firing, resolved, the first three are passed
\* downstream and the fourth is dropped as a flap.
C2_FourthDropped == ToggledRun(4) => Ids(downstream) = {1, 2, 3}

\* C2 (amended): all four alerts of that run are passed downstream (the flap
\* count is then 3, and the handler drops only above 3); the fifth alert,
\* toggling once more at t+4000, is the first one dropped as a flap.
C2_FifthDropped ==
  /\ ToggledRun(4) => (Ids(downstream) = {1, 2, 3, 4} /\ ~LastEntry.dropped)
  /\ ToggledRun(5) => (Ids(downstream) = {1, 2, 3, 4} /\ LastEntry.dropped)

\* The fifth alert of the run was dropped after the first four had passed.
C2_Witness ==
  ToggledRun(5) /\ LastEntry.dropped /\ Ids(downstream) = {1, 2, 3, 4}

\* C3: an alert at time t with key k is classified a duplicate iff
\* t - lastSeen[k] < dedupTTL (lastSeen 0 when k is absent); a non-duplicate
\* sets lastSeen[k] = t, count[k] = 1 and lastStatus[k]; a duplicate increments
\* count[k] and leaves lastSeen[k] as it was.
C3_TtlRule ==
  \A i \in DOMAIN dedupLog :
    LET e == dedupLog[i] IN
      /\ e.isDuplicate <=> (e.alert.ts - OrZero(e.pre.lastSeen) < dedupTtlMs)
      /\ ~e.isDuplicate =>
           /\ e.post.lastSeen = e.alert.ts
           /\ e.post.count = 1
           /\ e.post.lastStatus = e.alert.status
      /\ e.isDuplicate =>
           /\ e.post.count = OrZero(e.pre.count) + 1
           /\ e.post.lastSeen = e.pre.lastSeen

\* An alert exactly dedupTTL after the key was last seen was handled as new,
\* after a duplicate of the same key.
C3_Witness ==
  \E i \in DOMAIN dedupLog :
    /\ dedupLog[i].pre.lastSeen >= 0
    /\ dedupLog[i].pre.count >= 2
    /\ dedupLog[i].alert.ts - dedupLog[i].pre.lastSeen = dedupTtlMs
    /\ ~dedupLog[i].isDuplicate

\* C4 (as claimed): the alerts a dedup reply returns are in the relative order
\* they had in the batch.
C4_OrderPreserved ==
  \A i, j \in DOMAIN dedupOut :
    i < j => IndexIn(dedupIn, dedupOut[i]) < IndexIn(dedupIn, dedupOut[j])

\* C5 (as claimed): per entity, at most maxAlertsPerMinute of the alerts passed
\* downstream so far lie in the current 60-second window.
C5_RateCeiling ==
  \A a \in downstream :
    Cardinality({b \in downstream : /\ EntityKeyOf(b) = EntityKeyOf(a)
                                    /\ now - b.ts <= rateLimitWindow})
      <= maxAlertsPerMinute

(***************************************************************************)
(* Properties of the clusterer.                                            *)
(***************************************************************************)
Stored == Range(OValues(episodes))

\* C6 (as claimed): an alert at time t for a key whose episode e has
\* t - e.end > G leaves at that key a fresh episode with start = end = t and
\* count = 1.
C6_GapBreak ==
  \A i \in DOMAIN clusterLog :
    LET e == clusterLog[i] IN
      (e.existed /\ e.alert.ts - e.pre.end > episodeGapMs) =>
        /\ e.post.start = e.alert.ts
        /\ e.post.end = e.alert.ts
        /\ e.post.count = 1

\* C7 (as claimed): after the first alert a of a key with no episode, the
\* episode at that key has start = end = a.ts, count = 1, a's severity, the
\* source mix {a.source} and a retained list holding a exactly once.
C7_EpisodeCreation ==
  \A i \in DOMAIN clusterLog :
    LET e == clusterLog[i] IN
      ~e.existed =>
        /\ e.post.start = e.alert.ts
        /\ e.post.end = e.alert.ts
        /\ e.post.count = 1
        /\ e.post.severity = e.alert.severity
        /\ e.post.vendorMix = << e.alert.source >>
        /\ e.post.alerts = << e.alert >>

\* C8 (as claimed): every stored episode has start <= end and count >= 1.
C8_EpisodeInvariant ==
  \A ep \in Stored : ep.start <= ep.end /\ ep.count >= 1

\* C9 (as claimed, at a tick whose drained batch is empty): at the end of the
\* tick no stored episode has end < now - W, and every key of entityEpisodes
\* is a stored key.
C9_EvictedEveryTick ==
  tick = "empty" =>
    /\ \A ep \in Stored : ~(ep.end < now - windowMs)
    /\ \A ent \in DOMAIN entityEpisodes :
         Range(entityEpisodes[ent]) \subseteq OKeys(episodes)

\* C10: the episode list of a cluster reply holds exactly the stored episodes
\* with end >= now - W, each once, in ascending order of start.
C10_WindowContainment ==
  ticks > 0 =>
    LET out == clusterOut.episodes
        live == {ep \in Stored : ep.end >= now - windowMs}
    IN /\ Range(out) = live
       /\ Len(out) = Cardinality(live)
       /\ \A i, j \in DOMAIN out : i < j => out[i].start <= out[j].start

\* A reply listing two episodes, one of them ending exactly at now - W.
C10_Witness ==
  /\ ticks > 0
  /\ Len(clusterOut.episodes) >= 2
  /\ clusterOut.episodes[1].start < clusterOut.episodes[2].start
  /\ \E i \in DOMAIN clusterOut.episodes :
       clusterOut.episodes[i].end = now - windowMs

(***************************************************************************)
(* Properties of the situation builder and the scorer.                     *)
(***************************************************************************)
\* C11: every stored episode retains at most 50 alerts, and every situation
\* of a score reply has at most 200 related alerts and at most 5 next actions.
C11_BoundedCollections ==
  /\ \A ep \in Stored : Len(ep.alerts) <= maxEpisodeAlerts
  /\ \A i \in DOMAIN scoreOut :
       /\ Len(scoreOut[i].related_alerts) <= maxRelatedAlerts
       /\ Len(scoreOut[i].next_actions) <= maxNextActions

\* An episode that counted more alerts than it retains, scored into a
\* situation that has more alerts in its window than it relates and whose
\* cause asks for more actions than it lists.
C11_Witness ==
  /\ \E ep \in Stored : Len(ep.alerts) = maxEpisodeAlerts /\ ep.count > Len(ep.alerts)
  /\ \E i \in DOMAIN scoreOut :
       LET s == scoreOut[i] IN
         /\ Len(s.related_alerts) = maxRelatedAlerts
         /\ Cardinality({k \in DOMAIN scoreIn.alerts :
                           /\ scoreIn.alerts[k].ts >= s.window.start
                           /\ scoreIn.alerts[k].ts <= s.window.end})
              > maxRelatedAlerts
         /\ Len(s.next_actions) = maxNextActions
         /\ Includes(s.primary_cause.entity, "database")
         /\ Includes(s.primary_cause.entity, "api")
         /\ Includes(s.primary_cause.entity, "cache")

\* The number of places an episode has in the situations of the score reply.
PlacesOf(ep) ==
  SumSeq([i \in DOMAIN scoreOut |->
            Cardinality({k \in DOMAIN scoreOut[i].episodes :
                           scoreOut[i].episodes[k] = ep})])

\* C12: every episode given to buildSituations is a member of exactly one of
\* the returned situations, and every returned situation has a member.
C12_SituationCoverage ==
  /\ \A k \in DOMAIN scoreIn.episodes : PlacesOf(scoreIn.episodes[k]) = 1
  /\ \A i \in DOMAIN scoreOut : Len(scoreOut[i].episodes) >= 1

\* Three episodes, not given in the order of their starts, of which two were
\* joined into one situation and the third makes a situation of its own.
C12_Witness ==
  /\ Len(scoreIn.episodes) = 3
  /\ scoreIn.episodes[1].start > scoreIn.episodes[2].start
  /\ Len(scoreOut) = 2
  /\ \E i, j \in DOMAIN scoreOut :
       Len(scoreOut[i].episodes) = 2 /\ Len(scoreOut[j].episodes) = 1

\* C16: every scored situation has a score >= 0 and a confidence of its
\* primary cause between 0 and 1, whatever the number of member episodes and
\* the sizes of their source mixes.
C16_ScoreBounds ==
  \A i \in DOMAIN scoreOut :
    /\ ~scoreOut[i].scoreNaN
    /\ scoreOut[i].score >= 0
    /\ ~scoreOut[i].primary_cause.confidenceNaN
    /\ scoreOut[i].primary_cause.confidence >= 0
    /\ scoreOut[i].primary_cause.confidence <= ScoreUnit

(***************************************************************************)
(* Properties of the driver's situation set.                               *)
(***************************************************************************)
\* C13: as claimed, once a tick has run no stored situation has a window end
\* older than maxSituationLifetime and none has gone without being
\* regenerated for longer than quietThreshold, alerts arriving or not.
C13_RemovedWhenDue ==
  tick # "none" =>
    \A i \in DOMAIN situations :
      /\ now - situations[i].value.window.end <= config.maxSituationLifetime
      /\ now - GetOr0(lastActivity, situations[i].key) <= config.quietThreshold

\* C14: as claimed, after a successful tick getSituations() returns exactly
\* the situations that tick published.
C14_LatestSnapshot ==
  tick = "processed" => Range(getSituations) = Range(published)

\* b.score - a.score <= 0 as JavaScript evaluates it: false when either is NaN.
ScoreNotBelow(a, b) == ~a.scoreNaN /\ ~b.scoreNaN /\ a.score >= b.score

\* C15: as claimed, the list emitted on a tick is in non-increasing order of
\* score.
C15_ScoreOrder ==
  \A i \in DOMAIN published :
    i < Len(published) => ScoreNotBelow(published[i], published[i + 1])

\* C19: as claimed, a processBatch that fails leaves the stored situation set
\* as it was and publishes the previous set once more, unchanged.
C19_FailedTick ==
  [][ticks' # ticks /\ tick' = "failed" =>
       /\ situations' = situations
       /\ published' = published
       /\ emissions' = emissions + 1]_vars

\* A configuration whose window or hop is not a positive time.
InvalidConfig(c) == c.hopMs <= 0 \/ c.windowMs <= 0

\* C20: as claimed, updateConfig rejects an invalid value: whenever the running
\* configuration changes, the new one is valid, and an update that would make
\* it invalid leaves it equal to the prior configuration.
C20_InvalidRejected ==
  [][config' # config => ~InvalidConfig(config')]_vars

(***************************************************************************)
(* Properties of the threshold engine.                                     *)
(***************************************************************************)
\* The alerts a step added for a rule key.
AddedFor(rule, key) ==
  {i \in (Len(generatedAlerts) + 1)..Len(generatedAlerts') :
     generatedAlerts'[i].rule = rule.name /\ generatedAlerts'[i].key = key}

\* cooldown_until of a rule key before a step; no cooldown was started: 0.
CooldownUntil(ruleKey) == GetOr0(cooldowns, ruleKey)

\* C17: for every rule an event matches, an alert is emitted for (rule, key)
\* iff the sequence, the event appended, has at least rule.threshold entries
\* and the event time is >= cooldown_until; on emission cooldown_until becomes
\* the event time + the rule's cooldown and the alert's count is the length of
\* the sequence; without emission cooldown_until is left as it was.
C17_EmissionRule ==
  [][\A r \in DOMAIN k8sRules :
       LET rule == k8sRules[r]
           event == k8sLog'.event
           key == getKey(event, rule)
           ruleKey == RuleKeyOf(rule, event)
           due == /\ Len(ruleStates'[ruleKey]) >= rule.threshold
                  /\ event.ts >= CooldownUntil(ruleKey)
           added == AddedFor(rule, key)
       IN matches(event, rule) =>
            /\ ruleStates'[ruleKey][Len(ruleStates'[ruleKey])] = event.ts
            /\ Cardinality(added) = IF due THEN 1 ELSE 0
            /\ due =>
                 /\ cooldowns'[ruleKey] = event.ts + rule.cooldown
                 /\ \A i \in added :
                      generatedAlerts'[i].count = Len(ruleStates'[ruleKey])
            /\ ~due => GetOr0(cooldowns', ruleKey) = CooldownUntil(ruleKey)
    ]_vars

\* The rule of threshold 1 emitted for one node twice: at the first match and
\* again at the very instant its cooldown ended, an event that fell into the
\* cooldown having been counted and not emitted in between.
C17_Witness ==
  \E i, j \in DOMAIN generatedAlerts :
    LET a == generatedAlerts[i]
        b == generatedAlerts[j]
    IN /\ a.rule = "Node not ready" /\ b.rule = "Node not ready"
       /\ a.key = b.key
       /\ a.count = 1
       /\ b.last_ts = a.last_ts + 15 * 60 * 1000
       /\ b.count = 2
       /\ b.first_ts > a.last_ts
       /\ k8sLog.event.ts = b.last_ts
       /\ cooldowns["Node not ready|" \o b.key] = b.last_ts + 15 * 60 * 1000

\* C18: as claimed, a (rule, key) whose events have all left the rule's window
\* and whose cooldown has elapsed has no entry in the rule-state map and none
\* in the cooldown map.
C18_Evicted ==
  \A r \in DOMAIN k8sRules, shape \in K8sShapes :
    LET rule == k8sRules[r]
        ruleKey == RuleKeyOf(rule, shape)
        empty == Prune(GetOr(ruleStates, ruleKey, << >>), now - rule.window)
                   = << >>
        elapsed == now >= GetOr0(cooldowns, ruleKey)
    IN empty /\ elapsed => ~Has(ruleStates, ruleKey) /\ ~Has(cooldowns, ruleKey)

(***************************************************************************)
(* Graph proximity on its own: scoreSituation's call of shortestPathLen    *)
(* for one pair of entities of one dependency graph, in both directions,   *)
(* and the pathScore it derives.                                           *)
(***************************************************************************)
GraphNodes == {"a", "b", "c", "d", "e", "f"}

\* { a: ['b'], b: ['c'] }: c is no key of the record.
ExampleAdj == [n \in {"a", "b"} |-> IF n = "a" THEN << "b" >> ELSE << "c" >>]

\* a -> b -> c -> d -> e -> f, every node a key.
LongChainAdj ==
  [n \in GraphNodes |->
     CASE n = "a" -> << "b" >> [] n = "b" -> << "c" >> [] n = "c" -> << "d" >>
       [] n = "d" -> << "e" >> [] n = "e" -> << "f" >> [] OTHER -> << >>]

\* a - b - c - d with every edge listed at both of its ends.
TwoWayAdj ==
  [n \in {"a", "b", "c", "d"} |->
     CASE n = "a" -> << "b" >> [] n = "b" -> << "a", "c" >>
       [] n = "c" -> << "b", "d" >> [] OTHER -> << "c" >>]

\* a -> b -> c -> a, and d -> a.
RingAdj ==
  [n \in {"a", "b", "c", "d"} |->
     CASE n = "a" -> << "b" >> [] n = "b" -> << "c" >>
       [] n = "c" -> << "a" >> [] OTHER -> << "a" >>]

Graphs == {ExampleAdj, LongChainAdj, TwoWayAdj, RingAdj}

PathCall(adj, src, dst) ==
  /\ ticks = 0
  /\ ticks' = 1
  /\ pathIn' = [adj |-> adj, src |-> src, dst |-> dst]
  /\ \E there \in {shortestPathLen(adj, src, dst, pathLimit)} :
     \E back \in {shortestPathLen(adj, dst, src, pathLimit)} :
       pathOut' = [there |-> there, back |-> back,
                   pathScore |-> pathScoreOf(there)]
  /\ UNCHANGED << now, feed, sent, dedupVars, clusterVars, engineVars,
                  scoreVars, driverVars, k8sVars, lagIn, lagOut, lifeVars,
                  managerVars, extraVars >>

InitGraph == InitCommon /\ feed = FeedPair

NextGraph ==
  \E adj \in Graphs : \E src, dst \in GraphNodes : PathCall(adj, src, dst)

SpecGraph == InitGraph /\ [][NextGraph]_vars

\* The nodes one undirected edge away from x: x lists y or y lists x.
Adjacent(adj, x) ==
  {y \in GraphNodes :
     \/ x \in DOMAIN adj /\ y \in Range(adj[x])
     \/ y \in DOMAIN adj /\ x \in Range(adj[y])}

\* The nodes at most k undirected edges away from the nodes of S.
RECURSIVE Within(_, _, _)
Within(adj, S, k) ==
  IF k = 0 THEN S
  ELSE Within(adj, S \cup UNION {Adjacent(adj, x) : x \in S}, k - 1)

\* The length of the shortest undirected path when it is at most limit.
UndirectedLen(adj, src, dst, limit) ==
  LET ks == {k \in 0..limit : dst \in Within(adj, {src}, k)}
  IN IF ks = {} THEN Infinity ELSE CHOOSE k \in ks : \A j \in ks : k <= j

\* C26: as claimed, shortestPathLen returns the length of the shortest
\* undirected path between the two entities when that is at most 4 and
\* Infinity otherwise, the same in both directions, and pathScore is
\* 1/(1 + length): 1/3 from a to c in { a: ['b'], b: ['c'] }.
C26_UndirectedPath ==
  ticks > 0 =>
    /\ pathOut.there
         = UndirectedLen(pathIn.adj, pathIn.src, pathIn.dst, pathLimit)
    /\ pathOut.back = pathOut.there
    /\ pathIn.adj = ExampleAdj /\ pathIn.src = "a" /\ pathIn.dst = "c"
         => pathOut.there = 2 /\ pathOut.pathScore = ScoreUnit \div 3

(***************************************************************************)
(* Lead-lag on its own: one call of corrLeadLag for the alert times of a   *)
(* cause and of an effect.                                                 *)
(***************************************************************************)
MaxStamps == 3

Stamps == {T0, T0 + 1000, T0 + 2000}

StampLists == UNION {[1..n -> Stamps] : n \in 0..MaxStamps}

\* One alert in each of the seconds 0..4, and in each of the seconds 5..9.
ExampleCause == [i \in 1..5 |-> T0 + (i - 1) * 1000]
ExampleEffect == [i \in 1..5 |-> T0 + (i + 4) * 1000]

LagInputs ==
  {[aTs |-> a, bTs |-> b, maxLeadMs |-> l] :
     a \in StampLists, b \in StampLists, l \in {maxLeadMs, 1000}}
  \cup {[aTs |-> ExampleCause, bTs |-> ExampleEffect, maxLeadMs |-> maxLeadMs],
        [aTs |-> ExampleEffect, bTs |-> ExampleCause, maxLeadMs |-> maxLeadMs]}

LagCall(in) ==
  /\ ticks = 0
  /\ ticks' = 1
  /\ lagIn' = in
  /\ lagOut' = corrLeadLag(in.aTs, in.bTs, in.maxLeadMs)
  /\ UNCHANGED << now, feed, sent, dedupVars, clusterVars, engineVars,
                  scoreVars, driverVars, k8sVars, pathIn, pathOut, lifeVars,
                  managerVars, extraVars >>

InitLag == InitCommon /\ feed = FeedPair

NextLag == \E in \in LagInputs : LagCall(in)

SpecLag == InitLag /\ [][NextLag]_vars

\* <A, A> of the 1-second histogram of a timestamp list.
FullNorm(ts) ==
  LET H == toBins(ts) IN SumSeq([i \in 1..Len(ts) |-> H[ts[i] \div 1000]])

\* <A, B shifted by lag>: the pairs of timestamps whose bins are lag apart.
Dot(aTs, bTs, lag) ==
  Cardinality({p \in (DOMAIN aTs) \X (DOMAIN bTs) :
                 bTs[p[2]] \div 1000 = aTs[p[1]] \div 1000 + lag})

\* C30: as claimed, corrLeadLag returns score 0 and lag 0 when a list is
\* empty, and otherwise a lag that is a multiple of 1000 in [0, L] and
\* maximises, over the integer lags 0..floor(L/1000), the cosine similarity
\* <A, B shifted> / sqrt(<A,A> <B,B>) taken with the full norms of both
\* histograms, the score being that similarity; for a cause at the seconds
\* 0..4 and an effect at the seconds 5..9 it is lag 5 s with similarity 1.
C30_FullNormCosine ==
  ticks > 0 =>
    LET maxLagS == lagIn.maxLeadMs \div 1000
        lagS == lagOut.lagMs \div 1000
        full == FullNorm(lagIn.aTs) * FullNorm(lagIn.bTs)
    IN /\ lagIn.aTs = << >> \/ lagIn.bTs = << >>
            => lagOut.lagMs = 0 /\ lagOut.score = 0
       /\ lagOut.lagMs % 1000 = 0 /\ lagS \in 0..maxLagS
       /\ lagIn.aTs # << >> /\ lagIn.bTs # << >> =>
            /\ \A l \in 0..maxLagS :
                 Dot(lagIn.aTs, lagIn.bTs, l) <= Dot(lagIn.aTs, lagIn.bTs, lagS)
            /\ lagOut.num = Dot(lagIn.aTs, lagIn.bTs, lagS)
            /\ lagOut.num * lagOut.num * full
                 = lagOut.num * lagOut.num * lagOut.den
       /\ lagIn.aTs = ExampleCause /\ lagIn.bTs = ExampleEffect
            => lagOut.lagMs = 5000 /\ lagOut.score = ScoreUnit

(***************************************************************************)
(* Properties of the grouping of episodes into situations.                 *)
(***************************************************************************)
\* Two episodes whose intervals overlap and that share the entity, or the
\* fingerprint, or more than 0.3 of their sources by Jaccard.
Joined(e1, e2) ==
  LET m1 == Range(e1.vendorMix)
      m2 == Range(e2.vendorMix)
  IN /\ e1.start <= e2.end /\ e2.start <= e1.end
     /\ \/ e1.entity_key = e2.entity_key
        \/ e1.fingerprint = e2.fingerprint
        \/ 10 * Cardinality(m1 \cap m2) > 3 * Cardinality(m1 \cup m2)

\* The positions a chain of at most k joins leads to from the positions S.
RECURSIVE ChainFrom(_, _, _)
ChainFrom(eps, S, k) ==
  IF k = 0 THEN S
  ELSE ChainFrom(eps,
                 S \cup {j \in DOMAIN eps :
                           \E i \in S : i # j /\ Joined(eps[i], eps[j])},
                 k - 1)

SameSituation(e1, e2) ==
  \E s \in DOMAIN scoreOut :
    e1 \in Range(scoreOut[s].episodes) /\ e2 \in Range(scoreOut[s].episodes)

\* C29: two episodes of a score message are members of the same returned
\* situation iff a chain of pairwise joinable episodes of the message leads
\* from one to the other, two episodes being joinable iff their intervals
\* overlap and they have the same entity key, or the same fingerprint, or a
\* Jaccard of their source mixes above 0.3.
C29_GroupedByChains ==
  \A i, j \in DOMAIN scoreIn.episodes :
    i # j =>
      (SameSituation(scoreIn.episodes[i], scoreIn.episodes[j])
         <=> j \in ChainFrom(scoreIn.episodes, {i}, Len(scoreIn.episodes)))

\* Overlapping episodes of svc-b and api-gw with different fingerprints and
\* the sources {k8s, datadog} and {datadog, logicmonitor} came back as one
\* situation of two entities; and with them a third episode that overlaps
\* only the second and is in the situation by the chain through it.
C29_Witness ==
  /\ Len(scoreIn.episodes) = 3
  /\ \E i, j, k \in DOMAIN scoreIn.episodes :
       LET e1 == scoreIn.episodes[i]
           e2 == scoreIn.episodes[j]
           e3 == scoreIn.episodes[k]
       IN /\ Range(e1.vendorMix) = {"k8s", "datadog"}
          /\ Range(e2.vendorMix) = {"datadog", "logicmonitor"}
          /\ e1.entity_key # e2.entity_key /\ e1.fingerprint # e2.fingerprint
          /\ e1.end >= e2.start /\ e2.end >= e1.start
          /\ e3.start > e1.end /\ ~Joined(e1, e3) /\ Joined(e2, e3)
  /\ Len(scoreOut) = 1
  /\ Len(scoreOut[1].episodes) = 3
  /\ scoreOut[1].blast_radius.entities = 2

(***************************************************************************)
(* The threshold engine fed raw events of which some lack their ts or      *)
(* their message.                                                          *)
(***************************************************************************)
RawShapes ==
  {EventOf("prod", "Failed", "Warning", "Failed to pull image: ImagePullBackOff",
           "Pod", "web-1"),
   EventOf("prod", "Failed", "Warning", Undefined, "Pod", "web-1"),
   EventOf("", "NodeNotReady", "Warning", Undefined, "Node", "node-1"),
   EventOf("prod", "BackOff", "Warning", "Back-off restarting failed container",
           "Pod", "web-1")}

RawSteps == {0, 5 * 60 * 1000}

InitRaw == InitCommon /\ feed = FeedPair

NextRaw ==
  \E shape \in RawShapes, step \in RawSteps, stamped \in BOOLEAN :
    ProcessRaw(shape, step, stamped)

SpecRaw == InitRaw /\ [][NextRaw]_vars

\* An event without its ts, or without its message while a rule that would
\* otherwise match it has a messagePattern.
Malformed(event) ==
  \/ event.ts = NaN
  \/ \E r \in DOMAIN k8sRules : matchThrows(event, k8sRules[r])

\* C28: as claimed, processEvent drops a malformed raw event: it raises no
\* error, appends to no rule's sequence and emits no alert.
C28_MalformedDropped ==
  [][Malformed(k8sLog'.event) =>
       /\ k8sLog'.threw = ""
       /\ ruleStates' = ruleStates
       /\ generatedAlerts' = generatedAlerts
    ]_vars

(***************************************************************************)
(* The driver of main.ts: CorrelationEngine with its interval timer and    *)
(* its WorkerManager.  A processBatch call that awaits a reply stays in    *)
(* inflight; a worker takes the messages posted to it one after another    *)
(* and its replies reach handleWorkerMessage in the order it sent them.    *)
(* What a worker computes is left to the worker models above: a reply      *)
(* here names the tick whose request it answers.                           *)
(***************************************************************************)
\* `${workerType}_${Date.now()}_${Math.random()}`, unique per request.
MessageId(workerType, n) == workerType \o "_" \o ToString(n)

\* A partial configuration handed to updateConfig while the engine runs.
DriverUpdates == {[dedupTtlMs |-> 2 * dedupTtlMs]}

\* WorkerManager.postMessage for the call of tick n that enters a stage: a
\* rejected promise ends the call in its catch block.
postMessage(m, workerType, n) ==
  IF workerType \notin workers
  THEN [m EXCEPT !.inflight = Del(@, n), !.tick = "failed"]
  ELSE [handlers |-> Put(m.handlers, MessageId(workerType, n), n),
        inbox |-> [m.inbox EXCEPT
                     ![workerType] =
                        Append(@, [type |-> workerType, tick |-> n,
                                   config |-> config])],
        inflight |->
          Put(m.inflight, n,
              [stage |-> workerType,
               configs |-> Append(IF Has(m.inflight, n)
                                  THEN m.inflight[n].configs ELSE << >>,
                                  config)]),
        tick |-> "posted"]

\* CorrelationEngine.start
Start ==
  /\ IF isRunning THEN UNCHANGED lifeVars
     ELSE isRunning' = TRUE /\ timers' = timers + 1
  /\ UNCHANGED << now, feed, sent, ticks, dedupVars, clusterVars, engineVars,
                  scoreVars, driverVars, k8sVars, fnVars, extraVars,
                  managerVars >>

\* CorrelationEngine.stop with WorkerManager.terminate.  Whether a reply a
\* worker had sent before it was terminated still reaches onmessage is left
\* open.
Stop ==
  /\ IF ~isRunning THEN UNCHANGED << lifeVars, managerVars >>
     ELSE /\ isRunning' = FALSE
          /\ timers' = timers - 1
          /\ workers' = {}
          /\ messageHandlers' = EmptyMap
          /\ inbox' = [w \in WorkerTypes |-> << >>]
          /\ replies' \in {replies, << >>}
          /\ UNCHANGED inflight
  /\ UNCHANGED << now, feed, sent, ticks, dedupVars, clusterVars, engineVars,
                  scoreVars, driverVars, k8sVars, fnVars, extraVars >>

\* The interval timer calls processBatch, which runs up to its first await.
TimerTick ==
  /\ timers > 0
  /\ ticks < MaxTicks
  /\ ticks' = ticks + 1
  /\ now' = now + hopMs
  /\ recent' = << >>
  /\ IF recent = << >>
     THEN tick' = "empty" /\ UNCHANGED << messageHandlers, inbox, inflight >>
     ELSE \E m \in {postMessage([handlers |-> messageHandlers, inbox |-> inbox,
                                 inflight |-> inflight, tick |-> tick],
                                "dedup", ticks + 1)} :
            /\ messageHandlers' = m.handlers
            /\ inbox' = m.inbox
            /\ inflight' = m.inflight
            /\ tick' = m.tick
  /\ UNCHANGED << feed, sent, dedupVars, clusterVars, lastActivity, scoreVars,
                  driverVars, k8sVars, fnVars, extraVars, lifeVars, workers,
                  replies >>

\* self.onmessage of a worker: it answers the oldest message posted to it.
WorkerStep(w) ==
  /\ inbox[w] # << >>
  /\ inbox' = [inbox EXCEPT ![w] = Tail(@)]
  /\ replies' = Append(replies, [worker |-> w, success |-> TRUE,
                                 data |-> [tick |-> Head(inbox[w]).tick]])
  /\ UNCHANGED << now, feed, sent, ticks, dedupVars, clusterVars, engineVars,
                  scoreVars, driverVars, k8sVars, fnVars, extraVars, lifeVars,
                  workers,
                  messageHandlers, inflight >>

\* WorkerManager.handleWorkerMessage, bound to the worker's type: the handler
\* is looked up under the worker type.  A handler that is found settles its
\* promise and deletes itself, and the processBatch call that awaited it
\* runs on to its next await or to its end.
Deliver ==
  /\ replies # << >>
  /\ replies' = Tail(replies)
  /\ LET reply == Head(replies)
         key == reply.worker
     IN IF ~Has(messageHandlers, key)
        THEN UNCHANGED << messageHandlers, inbox, inflight, tick, published,
                          emissions >>
        ELSE LET n == messageHandlers[key]
                 m == [handlers |-> Del(messageHandlers, key), inbox |-> inbox,
                       inflight |-> inflight, tick |-> tick]
                 stage == inflight[n].stage
             IN IF stage = "score"
                THEN /\ messageHandlers' = m.handlers
                     /\ inflight' = Del(inflight, n)
                     /\ tick' = "processed"
                     /\ published' = reply.data
                     /\ emissions' = emissions + 1
                     /\ UNCHANGED inbox
                ELSE \E next \in
                       {postMessage(m, IF stage = "dedup" THEN "cluster"
                                       ELSE "score", n)} :
                       /\ messageHandlers' = next.handlers
                       /\ inbox' = next.inbox
                       /\ inflight' = next.inflight
                       /\ tick' = next.tick
                       /\ UNCHANGED << published, emissions >>
  /\ UNCHANGED << now, feed, sent, ticks, dedupVars, clusterVars, recent,
                  lastActivity, scoreVars, situations, config, k8sVars, fnVars,
                  extraVars,
                  lifeVars, workers >>

InitDriver == InitCommon /\ feed = FeedPair

NextDriver ==
  \/ \E sh \in feed.shapes : AddAlert(sh)
  \/ Start
  \/ Stop
  \/ TimerTick
  \/ \E w \in WorkerTypes : WorkerStep(w)
  \/ Deliver
  \/ \E updates \in DriverUpdates : UpdateConfig(updates)

SpecDriver == InitDriver /\ [][NextDriver]_vars

(***************************************************************************)
(* Properties of the driver of main.ts.                                    *)
(***************************************************************************)
\* C21: as claimed, an updateConfig call made while a tick is in flight takes
\* effect only at the next tick boundary: the configuration the engine reads
\* for the stages a tick has yet to enter is the one its earlier stages ran
\* with.
C21_AppliedAtBoundary ==
  \A n \in DOMAIN inflight :
    \A i \in DOMAIN inflight[n].configs : inflight[n].configs[i] = config

\* C22: as claimed, start() never leaves more than one tick timer, and after
\* start() following stop() a tick that finds alerts in the queue hands them
\* to the dedup stage.
C22_RestartWorks ==
  /\ timers <= 1
  /\ tick # "failed"

\* C23: as claimed, stop() stops the tick timer, terminates the workers and
\* discards the alerts that are in the ingress queue.
C23_StopDiscards ==
  [][isRunning /\ ~isRunning' =>
       timers' = 0 /\ workers' = {} /\ recent' = << >>]_vars

\* No 'situations-updated' event is ever sent by the driver of main.ts: no
\* reply finds its handler, so no processBatch call gets past its first
\* await.
NeverPublished ==
  /\ emissions = 0
  /\ \A n \in DOMAIN inflight : inflight[n].stage = "dedup"

\* C25: as claimed, the tick requests queued between the driver and a worker
\* do not accumulate: a request that is still queued when the next one is
\* posted is dropped, so a worker's queue never holds two.
C25_OldestDropped == \A w \in WorkerTypes : Len(inbox[w]) <= 1

\* C27: as claimed, no key outlives its use: every pending message handler
\* belongs to a request that is still queued at its worker or whose reply has
\* not been handled yet.
C27_HandlersEvicted ==
  \A id \in DOMAIN messageHandlers :
    \/ \E w \in WorkerTypes : \E i \in DOMAIN inbox[w] :
         MessageId(w, inbox[w][i].tick) = id
    \/ \E i \in DOMAIN replies :
         MessageId(replies[i].worker, replies[i].data.tick) = id

(***************************************************************************)
(* Properties of the deduplication worker's maps.                          *)
(***************************************************************************)
\* C31: an alert is dropped by the flap filter iff it was classified a
\* duplicate and the flap count of its key, after the update for this alert,
\* is above 3; the flap count grows (by one) exactly when the alert is a
\* duplicate whose status differs from the status recorded for its key; an
\* alert classified as new is never dropped by the flap filter, and a dropped
\* alert is not in the reply.
C31_FlapRule ==
  \A i \in DOMAIN dedupLog :
    LET e == dedupLog[i] IN
      /\ e.dropped <=> (e.isDuplicate /\ OrZero(e.post.flapCount) > 3)
      /\ OrZero(e.post.flapCount) # OrZero(e.pre.flapCount)
           <=> (e.isDuplicate /\ e.pre.lastStatus # ""
                  /\ e.pre.lastStatus # e.alert.status)
      /\ OrZero(e.post.flapCount) - OrZero(e.pre.flapCount) \in {0, 1}
      /\ e.dropped =>
           e.alert.vendor_event_id \notin
             {dedupOut[j].vendor_event_id : j \in DOMAIN dedupOut}

\* A duplicate was dropped with a flap count of 4, after a duplicate of the
\* same key with a flap count of 3 had been kept.
C31_Witness ==
  \E i, j \in DOMAIN dedupLog :
    /\ i < j
    /\ dedupLog[i].key = dedupLog[j].key
    /\ dedupLog[i].isDuplicate /\ dedupLog[i].post.flapCount = 3
    /\ ~dedupLog[i].dropped
    /\ dedupLog[j].isDuplicate /\ dedupLog[j].post.flapCount = 4
    /\ dedupLog[j].dropped

\* C36: as claimed, after any sequence of dedup messages every key present in
\* counts, flapCounts or lastToggle is also present in lastSeen (the only map
\* garbageCollect walks), whatever the magnitude of the alert timestamps.
C36_MapsConsistent ==
  \A key \in (DOMAIN state.counts) \cup (DOMAIN state.flapCounts)
               \cup (DOMAIN state.lastToggle) :
    Has(state.lastSeen, key)

(***************************************************************************)
(* Properties of the episode store and its index.                          *)
(***************************************************************************)
\* The keys of the stored episodes whose entity_key is ent.
KeysOfEntity(ent) ==
  {episodes[i].key : i \in {j \in DOMAIN episodes :
                              episodes[j].value.entity_key = ent}}

\* C37: entityEpisodes[entity] lists, without duplicates, exactly the keys of
\* the stored episodes whose entity_key is that entity, no entity maps to an
\* empty list, and every stored episode's entity has an entry.
C37_IndexConsistent ==
  /\ \A ent \in DOMAIN entityEpisodes :
       /\ entityEpisodes[ent] # << >>
       /\ \A i, j \in DOMAIN entityEpisodes[ent] :
            entityEpisodes[ent][i] = entityEpisodes[ent][j] => i = j
       /\ Range(entityEpisodes[ent]) = KeysOfEntity(ent)
  /\ \A i \in DOMAIN episodes :
       Has(entityEpisodes, episodes[i].value.entity_key)

\* The last cluster message evicted the episode of one of its alerts while
\* another episode of the same entity stays in the store and in the index.
C37_Witness ==
  \E i \in DOMAIN clusterLog :
    LET e == clusterLog[i] IN
      /\ ~OHas(episodes, e.key)
      /\ Has(entityEpisodes, e.post.entity_key)
      /\ entityEpisodes[e.post.entity_key] # << >>
      /\ e.key \notin Range(entityEpisodes[e.post.entity_key])

(***************************************************************************)
(* Properties of the situations of one score reply.                        *)
(***************************************************************************)
\* C38: as claimed, the situations returned by one buildSituations call have
\* pairwise distinct situation_id values.
C38_DistinctIds ==
  \A i, j \in DOMAIN scoreOut :
    scoreOut[i].situation_id = scoreOut[j].situation_id => i = j

(***************************************************************************)
(* Properties of the ingress queue.                                        *)
(***************************************************************************)
\* C34: the queue holds the alerts ingested since the last tick, in arrival
\* order, and a tick hands all of them to processBatch as its batch, in that
\* order, and leaves the queue empty; so the batches are consecutive runs of
\* the arrival sequence, every ingested alert is in exactly one of them, and
\* alerts of one timestamp keep their arrival order within and across batches.
C34_QueueDrain ==
  [][/\ \A i \in DOMAIN recent' :
          recent'[i].vendor_event_id = sent' - Len(recent') + i
     /\ ticks' # ticks =>
          /\ recent' = << >>
          /\ recent # << >> => dedupIn' = recent]_vars

\* A tick drained two alerts of one timestamp, in arrival order, and an alert
\* of the same timestamp that arrived after the tick is queued for the next.
C34_Witness ==
  /\ ticks >= 1
  /\ Len(dedupIn) = 2
  /\ dedupIn[1].ts = dedupIn[2].ts
  /\ dedupIn[1].vendor_event_id + 1 = dedupIn[2].vendor_event_id
  /\ Len(recent) = 1
  /\ recent[1].ts = dedupIn[2].ts
  /\ recent[1].vendor_event_id = dedupIn[2].vendor_event_id + 1

(***************************************************************************)
(* The threshold engine fed as TestDataGenerator.generateAllTestData feeds *)
(* it: the raw events carry their own times, in no particular order, and   *)
(* what each processEvent call returns is pushed onto allAlerts.           *)
(***************************************************************************)
\* The raw events of such a run: image pull failures and a node not ready.
StreamShapes ==
  {EventOf("prod", "Failed", "Warning", "Failed to pull image: ImagePullBackOff",
           "Pod", "web-1"),
   EventOf("", "NodeNotReady", "Warning", "Node node-1 status is now: NodeNotReady",
           "Node", "node-1")}

\* The times the raw events carry.
StreamTimes ==
  {T0, T0 + 5 * 60 * 1000, T0 + 15 * 60 * 1000, T0 + 30 * 60 * 1000}

\* One round of the loop of generateAllTestData:
\* const alerts = this.k8sProcessor.processEvent(event); allAlerts.push(...alerts)
GenerateStep(shape, ts) ==
  LET event == [f \in DOMAIN shape \cup {"ts"} |->
                  IF f = "ts" THEN ts ELSE shape[f]]
  IN \E r \in {RuleLoop([ruleStates |-> ruleStates, cooldowns |-> cooldowns,
                         generatedAlerts |-> generatedAlerts,
                         matched |-> << >>, threw |-> ""],
                        event, 1, now)} :
       /\ ticks < MaxEvents
       /\ ticks' = ticks + 1
       /\ ruleStates' = r.ruleStates
       /\ cooldowns' = r.cooldowns
       /\ generatedAlerts' = r.generatedAlerts
       /\ k8sLog' = [event |-> event, matched |-> r.matched, threw |-> r.threw]
       /\ allAlerts' = IF r.threw = "" THEN allAlerts \o r.generatedAlerts
                       ELSE allAlerts
       /\ UNCHANGED << fnVars, lifeVars, managerVars, streamVars, now, feed,
                       sent, dedupVars, clusterVars, engineVars, scoreVars,
                       driverVars >>

InitStream == InitCommon /\ feed = FeedPair

NextStream ==
  \E shape \in StreamShapes, ts \in StreamTimes : GenerateStep(shape, ts)

SpecStream == InitStream /\ [][NextStream]_vars

\* The rule of CONFIG.k8sRules with this name.
RuleNamed(name) ==
  k8sRules[CHOOSE i \in DOMAIN k8sRules : k8sRules[i].name = name]

\* The alerts processEvent synthesized in this step.
Emitted ==
  {generatedAlerts'[i] :
     i \in (Len(generatedAlerts) + 1)..Len(generatedAlerts')}

\* C32: a later emission for a (rule, key) carries an event time at least the
\* rule's cooldown after that of every earlier emission for it, and no alert
\* is emitted for an event whose time is below the cooldown end recorded for
\* its (rule, key), in whatever order the event times arrive.
C32_CooldownSpacing ==
  [][/\ \A i, j \in DOMAIN generatedAlerts' :
          (/\ i < j
           /\ generatedAlerts'[i].rule = generatedAlerts'[j].rule
           /\ generatedAlerts'[i].key = generatedAlerts'[j].key)
          => generatedAlerts'[j].last_ts - generatedAlerts'[i].last_ts
               >= RuleNamed(generatedAlerts'[i].rule).cooldown
     /\ \A a \in Emitted :
          LET ruleKey == a.rule \o "|" \o a.key
          IN Has(cooldowns, ruleKey) => a.last_ts >= cooldowns[ruleKey]]_vars

\* Two emissions for one (rule, key) exactly the rule's cooldown apart, and
\* after them an event of the key with an earlier time, which raised nothing.
C32_Witness ==
  \E i, j \in DOMAIN generatedAlerts :
    /\ i < j
    /\ generatedAlerts[i].rule = generatedAlerts[j].rule
    /\ generatedAlerts[i].key = generatedAlerts[j].key
    /\ generatedAlerts[j].last_ts - generatedAlerts[i].last_ts
         = RuleNamed(generatedAlerts[i].rule).cooldown
    /\ Len(generatedAlerts) = 2
    /\ k8sLog.matched # << >>
    /\ \E m \in DOMAIN k8sLog.matched :
         k8sRules[k8sLog.matched[m]].name = generatedAlerts[i].rule
    /\ k8sLog.event.ts < generatedAlerts[j].last_ts

\* C33: as claimed, after processEvent has handled an event of time t for a
\* rule it matches, every timestamp kept for (rule, key) is at least
\* t - window, also when the events arrive out of the order of their times.
C33_WindowHolds ==
  k8sLog.threw = "" =>
    \A i \in DOMAIN k8sLog.matched :
      LET rule == k8sRules[k8sLog.matched[i]]
          times == ruleStates[RuleKeyOf(rule, k8sLog.event)]
      IN \A k \in DOMAIN times : times[k] >= k8sLog.event.ts - rule.window

\* C39: as claimed, the alerts collected from the values successive
\* processEvent calls return hold no synthesized alert twice.
C39_DeliveredOnce ==
  \A i, j \in DOMAIN allAlerts : allAlerts[i] = allAlerts[j] => i = j

(***************************************************************************)
(* The driver of main.ts with its scheduling: a worker that has a message  *)
(* queued handles it, and a reply a worker has posted has its onmessage    *)
(* task run by the event loop.                                             *)
(***************************************************************************)
SpecDriverFair ==
  /\ InitDriver
  /\ [][NextDriver]_vars
  /\ WF_vars(\E w \in WorkerTypes : WorkerStep(w))
  /\ WF_vars(Deliver)

\* C35: as claimed, every request a tick sends with WorkerManager.postMessage
\* is eventually settled (unless the workers are terminated meanwhile): the
\* processBatch call of tick n that awaits a worker's reply eventually gets
\* past that await, to its end or to its catch block.
C35_RequestsSettle ==
  \A n \in 1..MaxTicks :
    Has(inflight, n) ~> (~Has(inflight, n) \/ workers = {})

(***************************************************************************)
(* AlertStream of main.ts over a WebSocket (useWebSocket = true) with a    *)
(* well-formed url.  A socket fires open at most once and close once; the  *)
(* onclose a socket was given stays on it when the ws field moves on.      *)
(***************************************************************************)
maxReconnectAttempts == 5

\* The sockets one stream may create in a run.
MaxConnects == 7

\* AlertStream.scheduleReconnect: the counter and the pending timeouts after
\* the call.
scheduleReconnect(attempts, pending) ==
  IF attempts < maxReconnectAttempts
  THEN [reconnectAttempts |-> attempts + 1, reconnectTimers |-> pending + 1]
  ELSE [reconnectAttempts |-> attempts, reconnectTimers |-> pending]

\* AlertStream.connectWebSocket: this.ws = new WebSocket(this.url), with its
\* handlers.
connectWebSocket ==
  /\ connects < MaxConnects
  /\ connects' = connects + 1
  /\ sockets' = Put(sockets, connects + 1, "connecting")
  /\ ws' = connects + 1

StreamRest ==
  << fnVars, lifeVars, managerVars, genVars, now, feed, sent, ticks, dedupVars,
     clusterVars, engineVars, scoreVars, driverVars, k8sVars >>

\* AlertStream.connect, as BrowserCorrelator.start calls it on the stream it
\* has just built.
Connect ==
  /\ connects = 0
  /\ ~disconnected
  /\ connectWebSocket
  /\ UNCHANGED << reconnectAttempts, reconnectTimers, disconnected, StreamRest >>

\* The timeout of scheduleReconnect fires: this.connect().
ReconnectTimer ==
  /\ reconnectTimers > 0
  /\ reconnectTimers' = reconnectTimers - 1
  /\ connectWebSocket
  /\ UNCHANGED << reconnectAttempts, disconnected, StreamRest >>

\* ws.onopen of socket id.
SocketOpen(id) ==
  /\ Has(sockets, id)
  /\ sockets[id] = "connecting"
  /\ sockets' = Put(sockets, id, "open")
  /\ reconnectAttempts' = 0
  /\ UNCHANGED << ws, reconnectTimers, connects, disconnected, StreamRest >>

\* ws.onclose of socket id: the connection failed, the peer closed it, or the
\* close that close() started has completed.
SocketClose(id) ==
  /\ Has(sockets, id)
  /\ sockets' = Del(sockets, id)
  /\ \E r \in {scheduleReconnect(reconnectAttempts, reconnectTimers)} :
       /\ reconnectAttempts' = r.reconnectAttempts
       /\ reconnectTimers' = r.reconnectTimers
  /\ UNCHANGED << ws, connects, disconnected, StreamRest >>

\* AlertStream.disconnect, as BrowserCorrelator.stop calls it: ws.close()
\* starts the closing handshake of a socket that is not closed yet.
Disconnect ==
  /\ connects > 0
  /\ IF ws # 0 /\ Has(sockets, ws)
     THEN sockets' = Put(sockets, ws, "closing")
     ELSE UNCHANGED sockets
  /\ ws' = 0
  /\ disconnected' = TRUE
  /\ UNCHANGED << reconnectAttempts, reconnectTimers, connects, StreamRest >>

InitAlertStream == InitCommon /\ feed = FeedPair

NextAlertStream ==
  \/ Connect
  \/ ReconnectTimer
  \/ \E id \in DOMAIN sockets : SocketOpen(id)
  \/ \E id \in DOMAIN sockets : SocketClose(id)
  \/ Disconnect

SpecAlertStream == InitAlertStream /\ [][NextAlertStream]_vars

\* reconnectAttempts stays within 0..maxReconnectAttempts, and a socket that
\* opens resets it to 0.
AttemptsBounded ==
  [][/\ reconnectAttempts' \in 0..maxReconnectAttempts
     /\ (\E id \in DOMAIN sockets' :
           sockets'[id] = "open" /\ Has(sockets, id)
             /\ sockets[id] = "connecting")
        => reconnectAttempts' = 0]_vars

\* C40: as claimed, reconnectAttempts never exceeds maxReconnectAttempts and
\* is reset to 0 when a socket opens; once disconnect() has been called no
\* connection attempt is made any more, and the close of the socket that
\* disconnect() closed schedules no reconnect.
C40_StreamReconnect ==
  [][/\ reconnectAttempts' \in 0..maxReconnectAttempts
     /\ (\E id \in DOMAIN sockets' :
           sockets'[id] = "open" /\ Has(sockets, id)
             /\ sockets[id] = "connecting")
        => reconnectAttempts' = 0
     /\ disconnected =>
          /\ connects' = connects
          /\ reconnectTimers' <= reconnectTimers]_vars
====
